---- MODULE Spec2Model ----
(***************************************************************************)
(* Verification model of the sos-server repository.                        *)
(*                                                                         *)
(* The repository holds three relay programs and one device program:       *)
(*   - the deduplicating relay  (src/unnamed/part_000), variables l_*      *)
(*   - the enhanced relay       (src/unnamed/part_001, lines 1-688), e_*   *)
(*   - the device app           (src/unnamed/part_001, lines 690-2095):    *)
(*     its alert submitter, d_*, and its geofence monitor, g_*             *)
(*   - the legacy relay         (src/server.js), variables s_*             *)
(* Each program has its own specification; a specification leaves the      *)
(* variables of the other programs unchanged.                              *)
(*                                                                         *)
(* A JavaScript object is a TLA+ record whose DOMAIN holds the fields that *)
(* are present; an insertion-ordered Map or Set is a sequence without      *)
(* repeated keys.  Every relay handler runs to completion (Node's event    *)
(* loop), so a handler is one action.  The events a handler emits are      *)
(* recorded, in order, in the outbox of the last handled event.            *)
(***************************************************************************)
EXTENDS Integers, Sequences, FiniteSets, TLC

\* ------------------------------------------------------------------------
\* Bounds of the model
\* ------------------------------------------------------------------------
\* sockets that connect to a relay during a run (socket ids 1..MaxSockets)
MaxSockets == 2
\* 'sos' events a relay handles during a run
MaxSos == 2
\* sockets that connect to the legacy relay, and the 'setGeofence' events it
\* handles, during a run
MaxLegacySockets == 3
MaxLegacySets == 3
\* the same two bounds for the runs that start with a full dedup window
MaxWindowSockets == 1
MaxWindowSos == 2
\* sockets, geofence events and pending timers of the runs that manage geofences
MaxGeoSockets == 2
MaxGeoEvents == 1
MaxPendingTimers == 1
\* no client identifies itself or asks for the geofences later than this after
\* the relay's start
MaxGeoClock == 1
\* sendSOS calls of a device run
MaxTriggers == 2
\* values of the random part of an sos id
MaxRandom == 2
\* the device's clock stops here
MaxTime == 12000
\* time passes in steps of TickStep, or up to the next timer
TickStep == 1000
\* the clock of the geofence monitor stops here, and advances in steps of MonTick
MaxMonTime == 60000
MonTick == 30000
\* the clock of a device that only reconnects stops here
MaxReconnectTime == 60000
\* the length up to which a run of inside results is counted
MaxRunLen == 3

\* ------------------------------------------------------------------------
\* Program constants
\* ------------------------------------------------------------------------
LedgerTrim == 50
LedgerMax == 100
DedupMax == 500
DedupKeep == 250
SosDebounce == 5000
SosTimeout == 15000
SosSendDelay == 800
SosSettle == 3000
SentIdsMax == 10
SentIdsKeep == 5
MaxReconnectAttempts == 5
ReconnectBase == 5000
ReconnectStep == 2000
\* Date.now() when a relay starts; every submitter-supplied id of the model is
\* smaller.  A relay's clock advances by one between two events it handles.
Epoch == 100000

\* ------------------------------------------------------------------------
\* JavaScript helpers
\* ------------------------------------------------------------------------
Has(obj, f) == f \in DOMAIN obj

\* obj.f is truthy: present and not 0 (ids are numbers in the model)
Truthy(obj, f) == Has(obj, f) /\ obj[f] # 0

\* Array.prototype.slice(0, n)
SliceHead(seq, n) == SubSeq(seq, 1, IF Len(seq) < n THEN Len(seq) ELSE n)

\* Array.prototype.slice(-n)
SliceTail(seq, n) == SubSeq(seq, IF Len(seq) < n THEN 1 ELSE Len(seq) - n + 1, Len(seq))

InSeq(seq, x) == \E i \in 1..Len(seq) : seq[i] = x

Emit(to, ev, data) == [to |-> to, ev |-> ev, data |-> data]

\* the emissions of outbox `out` with event name ev sent to session s
Sent(out, s, ev) == {i \in 1..Len(out) : out[i].to = s /\ out[i].ev = ev}

\* the emissions of outbox `out` with event name ev
SentAll(out, ev) == {i \in 1..Len(out) : out[i].ev = ev}

\* ------------------------------------------------------------------------
\* State
\* ------------------------------------------------------------------------
\* the deduplicating relay (src/unnamed/part_000)
VARIABLES
  l_connectedClients,  \* Map socket.id -> client record, in insertion order
  l_geofences,         \* array of geofences
  l_sosAlerts,         \* array of alerts, newest first
  l_processedSOSIds,   \* Set of seen sos ids, in insertion order
  l_nextSocket,        \* the id the next connecting socket gets
  l_now,               \* Date.now()
  l_sosCount,          \* 'sos' events handled so far
  l_seen,              \* history: the sos ids 1..l_seen were added to processedSOSIds
  l_last,              \* the event handled last
  l_out                \* what the last handler emitted, in order

lvars == <<l_connectedClients, l_geofences, l_sosAlerts, l_processedSOSIds,
           l_nextSocket, l_now, l_sosCount, l_seen, l_last, l_out>>

\* the enhanced relay (src/unnamed/part_001, lines 1-688)
VARIABLES
  e_open,              \* the ids of the sockets that are connected (io.sockets)
  e_connectedClients,  \* Map socket.id -> client record, in insertion order
  e_geofences,         \* array of geofences
  e_sosAlerts,         \* array of alerts, newest first
  e_timers,            \* pending setTimeout callbacks, in the order they were set
  e_nextSocket,        \* the id the next connecting socket gets
  e_now,               \* Date.now()
  e_sosCount,          \* 'sos' events handled so far
  e_geoCount,          \* geofence events and REST requests handled so far
  e_last,              \* the event handled last
  e_out                \* what the last handler emitted, in order

evars == <<e_open, e_connectedClients, e_geofences, e_sosAlerts, e_timers, e_nextSocket,
           e_now, e_sosCount, e_geoCount, e_last, e_out>>

\* the device app (src/unnamed/part_001, lines 690-2095)
VARIABLES
  d_now,                \* DateTime.now()
  d_mounted,            \* the State object is in the widget tree
  d_isSOSInProgress,    \* SOSProtection._isSOSInProgress
  d_lastSOSTime,        \* SOSProtection._lastSOSTime (NoTime = null)
  d_protSOSId,          \* SOSProtection._currentSOSId (NoId = null)
  d_sentSOSIds,         \* SOSProtection._sentSOSIds, in insertion order
  d_localSOSInProgress, \* _localSOSInProgress
  d_currentSOSId,       \* _currentSOSId (NoId = null)
  d_sosTimeoutTimer,    \* _sosTimeoutTimer (NoTimer = null or cancelled)
  d_sosStream,          \* events added to _sosStreamController, not yet delivered
  d_timers,             \* the pending timers and delayed futures
  d_socket,             \* "null", "connecting", "connected", "disconnected", "disposed"
  d_isConnected,        \* _isConnected
  d_reconnectAttempts,  \* _reconnectAttempts
  d_reconnectTimer,     \* _reconnectTimer (NoTimer = null or cancelled)
  d_statusMessage,      \* _statusMessage
  d_sosSent,            \* history: the ids of the 'sos' events emitted on the socket
  d_accepted,           \* history: the triggers that passed every guard
  d_trigger             \* the number and the outcome of the last sendSOS call

dvars == <<d_now, d_mounted, d_isSOSInProgress, d_lastSOSTime, d_protSOSId,
           d_sentSOSIds, d_localSOSInProgress, d_currentSOSId, d_sosTimeoutTimer,
           d_sosStream, d_timers, d_socket, d_isConnected, d_reconnectAttempts,
           d_reconnectTimer, d_statusMessage, d_sosSent, d_accepted, d_trigger>>

\* history of the enhanced relay: what it sent to each session about each
\* geofence id (recorded in the runs that observe it, see E_Observed)
VARIABLE e_hist

\* the Node process of the enhanced relay: "up" while it serves, "closing"
\* from gracefulShutdown until process.exit, "exited" after it
VARIABLE e_proc

\* the geofence monitor of the device app (fields of _HomeScreenState)
VARIABLES
  g_now,                    \* DateTime.now()
  g_isConnected,            \* _isConnected
  g_currentPos,             \* _currentPos (NoPos = null)
  g_geofences,              \* _geofences
  g_hasReceivedGeofences,   \* _hasReceivedGeofences
  g_geofenceInsideStatus,   \* _geofenceInsideStatus
  g_previousGeofenceStatus, \* _previousGeofenceStatus
  g_recentInsideChecks,     \* _recentInsideChecks
  g_lastAlertTime,          \* _lastAlertTime (NoTime = null)
  g_last,                   \* the event handled last
  g_out,                    \* the 'geofenceViolation' events the last handler emitted
  g_trace,                  \* the iterations of the last _checkAllGeofences loop
  g_emitted,                \* history: every 'geofenceViolation' emitted so far
  g_run                     \* history: per geofence, its current run of inside results

gvars == <<g_now, g_isConnected, g_currentPos, g_geofences, g_hasReceivedGeofences,
           g_geofenceInsideStatus, g_previousGeofenceStatus, g_recentInsideChecks,
           g_lastAlertTime, g_last, g_out, g_trace, g_emitted, g_run>>

\* the legacy relay (src/server.js)
VARIABLES
  s_proc,             \* the Node process: "up" or "exited"
  s_sockets,          \* the connected sockets (io.sockets), in connection order
  s_nextSocket,       \* the id of the next socket
  s_currentGeofence,  \* currentGeofence (S_Null = null)
  s_setCount,         \* the 'setGeofence' events handled so far
  s_sets,             \* history: the payloads of the 'setGeofence' events
  s_last,             \* the event handled last
  s_out               \* the events the last handler emitted

svars == <<s_proc, s_sockets, s_nextSocket, s_currentGeofence, s_setCount, s_sets,
           s_last, s_out>>

vars == <<lvars, evars, dvars, e_hist, e_proc, gvars, svars>>

\* a step of one program leaves the other programs alone
L_Only == UNCHANGED <<evars, dvars, e_hist, e_proc, gvars, svars>>

E_Only == UNCHANGED <<lvars, dvars, e_hist, e_proc, gvars, svars>>

D_Only == UNCHANGED <<lvars, evars, e_hist, e_proc, gvars, svars>>

G_Only == UNCHANGED <<lvars, evars, dvars, e_hist, e_proc, svars>>

S_Only == UNCHANGED <<lvars, evars, dvars, e_hist, e_proc, gvars>>

\* ========================================================================
\* The deduplicating relay (src/unnamed/part_000)
\* ========================================================================
L_Ids == {l_connectedClients[i].id : i \in 1..Len(l_connectedClients)}

L_Index(s) == CHOOSE i \in 1..Len(l_connectedClients) : l_connectedClients[i].id = s

L_Client(s) == l_connectedClients[L_Index(s)]

\* the ledger a relay holds after n accepted submissions (ids 1..n, sent by
\* sessions that have left since) followed by a cleanup tick
L_PastAlert(i) ==
  [id |-> i, sosId |-> i, user |-> "u", receivedAt |-> Epoch - 1, sender |-> 0]

L_PastLedger(n) ==
  LET k == IF n > LedgerTrim THEN LedgerTrim ELSE n
  IN  [j \in 1..k |-> L_PastAlert(n + 1 - j)]

\* the relay after n accepted submissions, a cleanup tick and the departure
\* of every session; n = 0 is the relay right after start
L_InitAfter(n) ==
  /\ l_connectedClients = <<>>
  /\ l_geofences = <<>>
  /\ l_processedSOSIds = [i \in 1..n |-> i]
  /\ l_sosAlerts = L_PastLedger(n)
  /\ l_seen = n
  /\ l_nextSocket = 1
  /\ l_now = Epoch
  /\ l_sosCount = 0
  /\ l_last = [ev |-> "start"]
  /\ l_out = <<>>

\* io.on('connection')
L_Connect ==
  /\ l_connectedClients' = Append(l_connectedClients,
        [id |-> l_nextSocket, type |-> "unknown", connectedAt |-> l_now])
  /\ l_nextSocket' = l_nextSocket + 1
  /\ l_out' = IF Len(l_geofences) > 0
              THEN <<Emit(l_nextSocket, "allGeofences", l_geofences)>>
              ELSE <<>>
  /\ l_last' = [ev |-> "connection"]
  /\ UNCHANGED <<l_geofences, l_sosAlerts, l_processedSOSIds, l_now, l_sosCount, l_seen>>

\* socket.on('disconnect')
L_Disconnect(s) ==
  /\ s \in L_Ids
  /\ l_connectedClients' = SelectSeq(l_connectedClients, LAMBDA c : c.id # s)
  /\ l_out' = <<>>
  /\ l_last' = [ev |-> "disconnect"]
  /\ UNCHANGED <<l_geofences, l_sosAlerts, l_processedSOSIds, l_nextSocket, l_now,
                 l_sosCount, l_seen>>

\* the payloads of 'identify' the model sends
IdentifyPayloads ==
  { [type |-> "mobile", name |-> "M", platform |-> "flutter"],
    [type |-> "web", name |-> "W"],
    [type |-> "admin"],
    [name |-> "N"] }

\* socket.on('identify')
L_Identify(s, data) ==
  /\ s \in L_Ids
  /\ l_connectedClients' = [l_connectedClients EXCEPT ![L_Index(s)] =
        [type |-> IF Has(data, "type") THEN data.type ELSE "unknown",
         name |-> IF Has(data, "name") THEN data.name ELSE "Unknown",
         platform |-> IF Has(data, "platform") THEN data.platform ELSE "unknown"]
        @@ L_Client(s)]
  /\ l_out' = IF Has(data, "type") /\ data.type = "mobile" /\ Len(l_geofences) > 0
              THEN <<Emit(s, "allGeofences", l_geofences)>>
              ELSE <<>>
  /\ l_last' = [ev |-> "identify"]
  /\ UNCHANGED <<l_geofences, l_sosAlerts, l_processedSOSIds, l_nextSocket, l_now,
                 l_sosCount, l_seen>>

\* the duplicate test of the 'sos' handler
L_IsDuplicate_Never(data) == FALSE

L_IsDuplicate(data) == Truthy(data, "sosId") /\ InSeq(l_processedSOSIds, data.sosId)

\* the recipient test of the 'sos' fan-out
L_IsRecipient_NoSenderTest(client, s) == client.type = "web" \/ client.type = "admin"

L_IsRecipient(client, s) ==
  client.id # s /\ (client.type = "web" \/ client.type = "admin")

\* the alert the 'sos' handler builds at time t
L_Alert(s, data, t) ==
  [id |-> IF Truthy(data, "sosId") THEN data.sosId ELSE t,
   receivedAt |-> t,
   sender |-> s] @@ data

L_Confirmation(data, broadcasts) ==
  IF Has(data, "sosId")
  THEN [success |-> TRUE, sosId |-> data.sosId, broadcasts |-> broadcasts]
  ELSE [success |-> TRUE, broadcasts |-> broadcasts]

\* socket.on('sos'); t is the clock the handler reads
L_Sos(s, data, t) ==
  /\ s \in L_Ids
  /\ l_sosCount' = l_sosCount + 1
  /\ l_last' = [ev |-> "sos", from |-> s, data |-> data]
  /\ IF L_IsDuplicate(data)
     THEN /\ l_out' = <<>>
          /\ UNCHANGED <<l_sosAlerts, l_processedSOSIds, l_now, l_seen>>
     ELSE LET alert == L_Alert(s, data, t)
              recipients == SelectSeq(l_connectedClients, LAMBDA c : L_IsRecipient(c, s))
              alerts == [i \in 1..Len(recipients) |->
                           Emit(recipients[i].id, "sosAlert", alert)]
          IN  /\ l_now' = t
              /\ l_processedSOSIds' =
                    IF Truthy(data, "sosId")
                    THEN Append(l_processedSOSIds, data.sosId)
                    ELSE l_processedSOSIds
              /\ l_seen' = IF Truthy(data, "sosId") /\ data.sosId > l_seen
                           THEN data.sosId ELSE l_seen
              /\ l_sosAlerts' = <<alert>> \o l_sosAlerts
              /\ l_out' = alerts \o
                    <<Emit(s, "sosConfirmation", L_Confirmation(data, Len(recipients)))>>
  /\ UNCHANGED <<l_connectedClients, l_geofences, l_nextSocket>>

\* the cleanup of the dedup window
L_TrimWindow_Always(ids) == SliceTail(ids, DedupKeep)

L_TrimWindow(ids) == IF Len(ids) > DedupMax THEN SliceTail(ids, DedupKeep) ELSE ids

\* the setInterval callback
L_Cleanup ==
  /\ l_sosAlerts' = IF Len(l_sosAlerts) > LedgerTrim
                    THEN SliceHead(l_sosAlerts, LedgerTrim) ELSE l_sosAlerts
  /\ l_processedSOSIds' = L_TrimWindow(l_processedSOSIds)
  /\ l_out' = <<>>
  /\ l_last' = [ev |-> "cleanup"]
  /\ UNCHANGED <<l_connectedClients, l_geofences, l_nextSocket, l_now, l_sosCount, l_seen>>

\* the sos ids a client sends: id 1 and the smallest id never seen (clients
\* name their alerts 1, 2, 3, ... in the order the relay first sees them)
L_FreshId == l_seen + 1

L_SosPayloads ==
  {[user |-> "u"]} \cup {[user |-> "u", sosId |-> k] : k \in {1, L_FreshId}}

L_Next ==
  \/ l_nextSocket <= MaxSockets /\ L_Connect /\ L_Only
  \/ \E s \in L_Ids : L_Disconnect(s) /\ L_Only
  \/ \E s \in L_Ids, data \in IdentifyPayloads : L_Identify(s, data) /\ L_Only
  \/ \E s \in L_Ids, data \in L_SosPayloads :
        l_sosCount < MaxSos /\ L_Sos(s, data, l_now + 1) /\ L_Only
  \/ L_Cleanup /\ L_Only

L_NextWindow ==
  \/ l_nextSocket <= MaxWindowSockets /\ L_Connect /\ L_Only
  \/ \E s \in L_Ids : L_Disconnect(s) /\ L_Only
  \/ \E s \in L_Ids, data \in IdentifyPayloads : L_Identify(s, data) /\ L_Only
  \/ \E s \in L_Ids, data \in L_SosPayloads :
        l_sosCount < MaxWindowSos /\ L_Sos(s, data, l_now + 1) /\ L_Only
  \/ L_Cleanup /\ L_Only

\* ------------------------------------------------------------------------
\* Claims about the deduplicating relay
\* ------------------------------------------------------------------------
\* a step of the 'sos' handler
L_SosStep == l_sosCount' = l_sosCount + 1

\* the 'sos' handled by the step carries an id already in the dedup window
L_Resubmitted ==
  /\ L_SosStep
  /\ Truthy(l_last'.data, "sosId")
  /\ InSeq(l_processedSOSIds, l_last'.data.sosId)

\* the 'sos' handled by the step carries no id, or one not in the dedup window
L_FirstSubmitted == L_SosStep /\ ~L_Resubmitted

L_AlertsWithId(ledger, x) == {i \in 1..Len(ledger) : ledger[i].id = x}

\* the sessions the step's 'sos' must be fanned out to
L_Monitors ==
  {c \in L_Ids : c # l_last'.from /\ L_Client(c).type \in {"web", "admin"}}

\* C1: a first 'sos' with id X adds one ledger entry with id X and sends one
\* 'sosAlert' to each web/admin session other than the sender; a second 'sos'
\* with id X adds no ledger entry and emits no 'sosAlert', so the ledger holds
\* exactly one entry with id X (the ledgers of these runs are too short for a
\* cleanup tick to cut them).
C1_SameIdTwice ==
  [][ (L_SosStep /\ Truthy(l_last'.data, "sosId")) =>
        LET x == l_last'.data.sosId
        IN  IF InSeq(l_processedSOSIds, x)
            THEN /\ l_sosAlerts' = l_sosAlerts
                 /\ SentAll(l_out', "sosAlert") = {}
                 /\ Cardinality(L_AlertsWithId(l_sosAlerts', x)) = 1
            ELSE /\ Len(l_sosAlerts') = Len(l_sosAlerts) + 1
                 /\ Cardinality(L_AlertsWithId(l_sosAlerts', x)) = 1
                 /\ \A c \in L_Ids :
                      Cardinality(Sent(l_out', c, "sosAlert")) =
                        IF c \in L_Monitors THEN 1 ELSE 0 ]_lvars

C1_Witness ==
  /\ l_last.ev = "sos"
  /\ Truthy(l_last.data, "sosId")
  /\ l_out = <<>>
  /\ Cardinality(L_AlertsWithId(l_sosAlerts, l_last.data.sosId)) = 1
  /\ \E c \in L_Ids : c # l_last.from /\ L_Client(c).type \in {"web", "admin"}

\* C2: an accepted 'sos' sends 'sosAlert' once to each session that is web or
\* admin and not the sender, to no other session, and sends the sender one
\* 'sosConfirmation' whose broadcasts field counts the 'sosAlert's sent.
C2_RoleFilteredFanout ==
  [][ L_FirstSubmitted =>
        /\ \A i \in 1..Len(l_out') : l_out'[i].to \in L_Ids
        /\ \A c \in L_Ids :
             /\ Cardinality(Sent(l_out', c, "sosAlert")) =
                  IF c \in L_Monitors THEN 1 ELSE 0
             /\ Cardinality(Sent(l_out', c, "sosConfirmation")) =
                  IF c = l_last'.from THEN 1 ELSE 0
        /\ \A i \in SentAll(l_out', "sosConfirmation") :
             /\ l_out'[i].data.success
             /\ l_out'[i].data.broadcasts = Cardinality(SentAll(l_out', "sosAlert")) ]_lvars

C2_Witness ==
  /\ l_last.ev = "sos"
  /\ L_Client(l_last.from).type = "web"
  /\ \E c \in L_Ids : c # l_last.from /\ L_Client(c).type = "admin"
  /\ Cardinality(SentAll(l_out, "sosAlert")) = 1
  /\ Cardinality(SentAll(l_out, "sosConfirmation")) = 1

\* C7 as claimed: a 'sos' whose id was accepted before (one of 1..l_seen) never
\* adds a ledger entry and never causes a 'sosAlert'.
C7_DedupForever ==
  [][ (L_SosStep /\ Truthy(l_last'.data, "sosId") /\ l_last'.data.sosId <= l_seen) =>
        /\ l_sosAlerts' = l_sosAlerts
        /\ SentAll(l_out', "sosAlert") = {} ]_lvars

\* C7 as amended: a 'sos' whose id is still in the dedup window is a no-op, and
\* an id leaves the window only by a cleanup tick that finds more than
\* DedupMax ids, which keeps the DedupKeep ids added last.
C7_DedupWhileInWindow ==
  /\ [][ L_Resubmitted =>
          /\ l_sosAlerts' = l_sosAlerts
          /\ l_processedSOSIds' = l_processedSOSIds
          /\ SentAll(l_out', "sosAlert") = {} ]_lvars
  /\ [][ \/ l_processedSOSIds' = l_processedSOSIds
         \/ /\ L_FirstSubmitted
            /\ l_processedSOSIds' = Append(l_processedSOSIds, l_last'.data.sosId)
         \/ /\ l_last'.ev = "cleanup"
            /\ Len(l_processedSOSIds) > DedupMax
            /\ l_processedSOSIds' = SliceTail(l_processedSOSIds, DedupKeep) ]_lvars

\* id 1, accepted before the run, is submitted again after another id was
\* accepted, and is ignored
C7_Witness ==
  /\ l_last.ev = "sos"
  /\ Truthy(l_last.data, "sosId")
  /\ l_last.data.sosId = 1
  /\ Len(l_processedSOSIds) = DedupMax + 1
  /\ l_sosCount = 2
  /\ l_out = <<>>

\* C8 as claimed: the sender of a 'sos' whose id is in the dedup window is
\* sent a 'sosConfirmation' with success true, and nothing else happens.
C8_DuplicateAcknowledged ==
  [][ L_Resubmitted =>
        /\ l_sosAlerts' = l_sosAlerts
        /\ \A i \in 1..Len(l_out') : l_out'[i].to = l_last'.from
        /\ SentAll(l_out', "error") = {}
        /\ \E i \in Sent(l_out', l_last'.from, "sosConfirmation") :
             l_out'[i].data.success ]_lvars

\* C11 as claimed: a 'sos' never finds more than DedupMax ids in the dedup
\* window, and the window never grows beyond DedupMax + 1 ids: an id is added
\* to a window of at most DedupMax ids only.
C11_WindowBounded ==
  [][ L_SosStep =>
        /\ Len(l_processedSOSIds) <= DedupMax
        /\ Len(l_processedSOSIds') <= DedupMax + 1 ]_lvars

\* ========================================================================
\* The enhanced relay (src/unnamed/part_001, lines 1-688)
\* ========================================================================
E_Ids == {e_connectedClients[i].id : i \in 1..Len(e_connectedClients)}

E_Index(s) == CHOOSE i \in 1..Len(e_connectedClients) : e_connectedClients[i].id = s

E_Client(s) == e_connectedClients[E_Index(s)]

\* io.emit(ev, data): one emission to every connected socket
E_IoEmit_Monitors(ev, data) ==
  LET monitors == SelectSeq(e_connectedClients, LAMBDA c : c.type # "mobile")
  IN  [i \in 1..Len(monitors) |-> Emit(monitors[i].id, ev, data)]

E_IoEmit(ev, data) ==
  [i \in 1..Len(e_connectedClients) |-> Emit(e_connectedClients[i].id, ev, data)]

\* nothing has been sent yet
E_NoHistory == [deleted |-> {}, sent |-> {}]

\* the k-th alert (k = 1 is the latest) of a ledger filled before the run
E_PastAlert(k) ==
  [id |-> Epoch - k, timestamp |-> Epoch - k, receivedAt |-> Epoch - k,
   user |-> "u", message |-> "Emergency assistance needed"]

\* the relay after n 'sos' events and the departure of every session; n = 0
\* is the relay right after start
E_InitAfter(n) ==
  /\ e_open = {}
  /\ e_hist = E_NoHistory
  /\ e_proc = "up"
  /\ e_connectedClients = <<>>
  /\ e_geofences = <<>>
  /\ e_sosAlerts = [k \in 1..n |-> E_PastAlert(k)]
  /\ e_timers = <<>>
  /\ e_nextSocket = 1
  /\ e_now = Epoch
  /\ e_sosCount = 0
  /\ e_geoCount = 0
  /\ e_last = [ev |-> "start"]
  /\ e_out = <<>>

\* io.on('connection')
E_Connect ==
  /\ e_open' = e_open \cup {e_nextSocket}
  /\ e_connectedClients' = Append(e_connectedClients,
        [id |-> e_nextSocket, type |-> "unknown", connectedAt |-> e_now])
  /\ e_nextSocket' = e_nextSocket + 1
  /\ e_out' = [i \in 1..Len(e_geofences) |->
                 Emit(e_nextSocket, "updateGeofence", e_geofences[i])]
  /\ e_last' = [ev |-> "connection"]
  /\ UNCHANGED <<e_geofences, e_sosAlerts, e_timers, e_now, e_sosCount, e_geoCount>>

\* connectedClients.delete(socket.id)
E_RegistryDelete_Keep(s) == e_connectedClients

E_RegistryDelete(s) == SelectSeq(e_connectedClients, LAMBDA c : c.id # s)

\* socket.on('disconnect'); the socket has left io.sockets
E_Disconnect(s) ==
  /\ s \in e_open
  /\ e_open' = e_open \ {s}
  /\ e_connectedClients' = E_RegistryDelete(s)
  /\ e_out' = <<>>
  /\ e_last' = [ev |-> "disconnect"]
  /\ UNCHANGED <<e_geofences, e_sosAlerts, e_timers, e_nextSocket, e_now, e_sosCount,
                 e_geoCount>>

\* the setTimeout calls of the 'identify' handler: one per geofence, then the
\* bulk one, which reads the store when it fires
E_IdentifyTimers_NoBulk(s) ==
  [i \in 1..Len(e_geofences) |->
     [to |-> s, ev |-> "updateGeofence", geofence |-> e_geofences[i],
      due |-> e_now + (i - 1) * 100]]

E_IdentifyTimers(s) ==
  [i \in 1..Len(e_geofences) |->
     [to |-> s, ev |-> "updateGeofence", geofence |-> e_geofences[i],
      due |-> e_now + (i - 1) * 100]]
  \o <<[to |-> s, ev |-> "allGeofences", due |-> e_now + Len(e_geofences) * 100 + 500]>>

\* socket.on('identify')
E_Identify(s, data) ==
  /\ s \in e_open
  /\ IF s \in E_Ids
     THEN /\ e_connectedClients' = [e_connectedClients EXCEPT ![E_Index(s)] =
                data @@
                [type |-> IF Has(data, "type") THEN data.type ELSE "unknown",
                 name |-> IF Has(data, "name") THEN data.name ELSE "Unknown Client",
                 platform |-> IF Has(data, "platform") THEN data.platform ELSE "unknown",
                 userAgent |-> IF Has(data, "userAgent") THEN data.userAgent
                               ELSE "unknown"]
                @@ E_Client(s)]
          /\ e_timers' =
                IF Has(data, "type") /\ data.type = "mobile" /\ Len(e_geofences) > 0
                THEN e_timers \o E_IdentifyTimers(s)
                ELSE e_timers
     ELSE UNCHANGED <<e_connectedClients, e_timers>>
  /\ e_out' = <<>>
  /\ e_last' = [ev |-> "identify", from |-> s, data |-> data]
  /\ UNCHANGED <<e_open, e_geofences, e_sosAlerts, e_nextSocket, e_now, e_sosCount,
                 e_geoCount>>

\* the alert the 'sos' handler builds at time t; Date.now() + Math.random()
\* is a number no other alert has
E_Alert(data, t) ==
  [id |-> t,
   timestamp |-> IF Truthy(data, "timestamp") THEN data.timestamp ELSE t,
   receivedAt |-> t,
   user |-> IF Has(data, "user") THEN data.user ELSE "Unknown User",
   message |-> IF Has(data, "message") THEN data.message
               ELSE "Emergency assistance needed"] @@ data

\* the ledger cap of the 'sos' handler
E_CapLedger_KeepTail(alerts) ==
  IF Len(alerts) > LedgerMax THEN SliceTail(alerts, LedgerMax) ELSE alerts

E_CapLedger(alerts) ==
  IF Len(alerts) > LedgerMax THEN SliceHead(alerts, LedgerMax) ELSE alerts

\* socket.on('sos'); t is the clock the handler reads
E_Sos(s, data, t) ==
  /\ s \in e_open
  /\ e_sosCount' = e_sosCount + 1
  /\ e_now' = t
  /\ e_last' = [ev |-> "sos", from |-> s, data |-> data]
  /\ LET alertData == E_Alert(data, t)
     IN  /\ e_sosAlerts' = E_CapLedger(<<alertData>> \o e_sosAlerts)
         /\ e_out' = E_IoEmit("sosAlert", alertData) \o E_IoEmit("emergency", alertData)
                     \o E_IoEmit("alert", alertData) \o E_IoEmit("sos", alertData)
  /\ UNCHANGED <<e_open, e_connectedClients, e_geofences, e_timers, e_nextSocket,
                 e_geoCount>>

\* the 'sos' payloads a client sends: with and without an id of its own
E_SosPayloads == {[user |-> "u", sosId |-> 1], [message |-> "m"]}

\* the enhanced relay while no client sends geofence events
E_NextLedger ==
  \/ e_nextSocket <= MaxSockets /\ E_Connect /\ E_Only
  \/ \E s \in e_open : E_Disconnect(s) /\ E_Only
  \/ \E s \in e_open, data \in IdentifyPayloads : E_Identify(s, data) /\ E_Only
  \/ \E s \in e_open, data \in E_SosPayloads :
        e_sosCount < MaxSos /\ E_Sos(s, data, e_now + 1) /\ E_Only

\* ------------------------------------------------------------------------
\* Claims about the enhanced relay's ledger
\* ------------------------------------------------------------------------
E_SosStep == e_sosCount' = e_sosCount + 1

E_AlertEvents == {"sosAlert", "emergency", "alert", "sos"}

\* C9 as claimed: a 'sos' whose submitter-supplied id is that of an alert in
\* the ledger adds no ledger entry and no session is sent an alert event.
C9_DuplicateRejected ==
  [][ ( /\ E_SosStep
        /\ Truthy(e_last'.data, "sosId")
        /\ \E i \in 1..Len(e_sosAlerts) :
             Has(e_sosAlerts[i], "sosId") /\ e_sosAlerts[i].sosId = e_last'.data.sosId )
      => /\ e_sosAlerts' = e_sosAlerts
         /\ \A i \in 1..Len(e_out') : e_out'[i].ev \notin E_AlertEvents ]_evars

\* C10: the ledger never holds more than LedgerMax entries, is ordered newest
\* first, and a 'sos' puts its alert in front of the others, of which the
\* oldest is dropped when the ledger was full.
C10_LedgerCapped ==
  /\ [](/\ Len(e_sosAlerts) <= LedgerMax
        /\ \A i \in 1..Len(e_sosAlerts) - 1 :
             e_sosAlerts[i].receivedAt > e_sosAlerts[i + 1].receivedAt)
  /\ [][ E_SosStep =>
          /\ Len(e_sosAlerts') =
               IF Len(e_sosAlerts) < LedgerMax THEN Len(e_sosAlerts) + 1 ELSE LedgerMax
          /\ e_sosAlerts'[1].receivedAt = e_now'
          /\ \A i \in 2..Len(e_sosAlerts') : e_sosAlerts'[i] = e_sosAlerts[i - 1] ]_evars

\* a 'sos' found the ledger full: the oldest alert (the LedgerMax - 1st of the
\* alerts received before the run) is gone
C10_Witness ==
  /\ e_last.ev = "sos"
  /\ e_sosCount = 2
  /\ Len(e_sosAlerts) = LedgerMax
  /\ e_sosAlerts[LedgerMax] = E_PastAlert(LedgerMax - 2)

\* C23: the registry has one entry for each connected session and none for
\* any other; a session's entry has type unknown when the session connects, and
\* the type of an entry changes only by an 'identify' of that session.
C23_RegistryTracksSessions ==
  /\ [](/\ E_Ids = e_open
        /\ Len(e_connectedClients) = Cardinality(e_open))
  /\ [][ e_last'.ev = "connection" =>
          \E i \in 1..Len(e_connectedClients') :
            /\ e_connectedClients'[i].id = e_nextSocket
            /\ e_connectedClients'[i].type = "unknown" ]_evars
  /\ [][ \A i \in 1..Len(e_connectedClients), j \in 1..Len(e_connectedClients') :
            ( /\ e_connectedClients[i].id = e_connectedClients'[j].id
              /\ e_connectedClients[i].type # e_connectedClients'[j].type )
            => e_last'.ev = "identify" /\ e_last'.from = e_connectedClients[i].id ]_evars

\* two sessions connected and the first has left: the registry holds the
\* second, which has not identified itself
C23_Witness ==
  /\ e_last.ev = "disconnect"
  /\ e_open = {2}
  /\ Len(e_connectedClients) = 1
  /\ e_connectedClients[1].id = 2
  /\ e_connectedClients[1].type = "unknown"

\* ------------------------------------------------------------------------
\* The enhanced relay's geofence store
\* ------------------------------------------------------------------------
\* Shape data (center, radius, the elements of points) are opaque to the
\* relay, which only tests their truthiness: they are non-empty strings, and
\* JavaScript's null is the string Null.  new Date().toISOString() is the
\* clock value it formats.
Null == "null"

\* obj.f is a truthy string
TruthyStr(obj, f) == Has(obj, f) /\ obj[f] # ""

\* obj.f || dflt, for a string field
OrStr(obj, f, dflt) == IF TruthyStr(obj, f) THEN obj[f] ELSE dflt

\* obj.f !== false, for a boolean field
NotFalse(obj, f) == ~Has(obj, f) \/ obj[f] # FALSE

\* obj.f || false, for a boolean field
OrFalse(obj, f) == Has(obj, f) /\ obj[f]

\* geofences.findIndex(g => g.id === id); 0 stands for -1
E_FindIndex(id) ==
  IF \E i \in 1..Len(e_geofences) : e_geofences[i].id = id
  THEN CHOOSE i \in 1..Len(e_geofences) :
         /\ e_geofences[i].id = id
         /\ \A j \in 1..(i - 1) : e_geofences[j].id # id
  ELSE 0

\* socket.broadcast.emit(ev, data): every connected socket but the sender
E_BroadcastEmit(s, ev, data) ==
  LET others == SelectSeq(e_connectedClients, LAMBDA c : c.id # s)
  IN  [i \in 1..Len(others) |-> Emit(others[i].id, ev, data)]

\* socket.emit(ev, data): one emission to the socket of the handler
E_SocketEmit_ToAll(s, ev, data) == E_IoEmit(ev, data)

E_SocketEmit(s, ev, data) == <<Emit(s, ev, data)>>

\* the validation of 'createGeofence'
E_ValidCreate(data) == TruthyStr(data, "name") /\ Truthy(data, "id")

\* the record 'createGeofence' stores at time t
E_NewGeofence_ActiveTruthy(data, t) ==
  [id |-> data.id,
   name |-> data.name,
   type |-> OrStr(data, "type", "MONITORING"),
   priority |-> OrStr(data, "priority", "medium"),
   active |-> OrFalse(data, "active"),
   alertOnEntry |-> OrFalse(data, "alertOnEntry"),
   alertOnExit |-> OrFalse(data, "alertOnExit"),
   shapeType |-> OrStr(data, "shapeType", OrStr(data, "type", "polygon")),
   points |-> IF Has(data, "points") THEN data.points ELSE <<>>,
   center |-> OrStr(data, "center", Null),
   radius |-> OrStr(data, "radius", Null),
   createdAt |-> IF Truthy(data, "createdAt") THEN data.createdAt ELSE t,
   updatedAt |-> t]

E_NewGeofence(data, t) ==
  [id |-> data.id,
   name |-> data.name,
   type |-> OrStr(data, "type", "MONITORING"),
   priority |-> OrStr(data, "priority", "medium"),
   active |-> NotFalse(data, "active"),
   alertOnEntry |-> NotFalse(data, "alertOnEntry"),
   alertOnExit |-> OrFalse(data, "alertOnExit"),
   shapeType |-> OrStr(data, "shapeType", OrStr(data, "type", "polygon")),
   points |-> IF Has(data, "points") THEN data.points ELSE <<>>,
   center |-> OrStr(data, "center", Null),
   radius |-> OrStr(data, "radius", Null),
   createdAt |-> IF Truthy(data, "createdAt") THEN data.createdAt ELSE t,
   updatedAt |-> t]

\* the forEach of 'createGeofence': mobile clients and everyone but the sender
E_CreateFanout(s, geofence) ==
  LET targets == SelectSeq(e_connectedClients,
                           LAMBDA c : c.type = "mobile" \/ c.id # s)
  IN  [i \in 1..Len(targets) |-> Emit(targets[i].id, "updateGeofence", geofence)]

\* what every geofence handler does first: it runs at time t
E_GeoEvent(ev, s, data, t) ==
  /\ e_geoCount' = e_geoCount + 1
  /\ e_now' = t
  /\ e_last' = [ev |-> ev, from |-> s, data |-> data]
  /\ UNCHANGED <<e_open, e_connectedClients, e_sosAlerts, e_timers, e_nextSocket,
                 e_sosCount>>

\* socket.on('createGeofence')
E_CreateGeofence(s, data, t) ==
  /\ s \in e_open
  /\ E_GeoEvent("createGeofence", s, data, t)
  /\ IF ~E_ValidCreate(data)
     THEN /\ e_out' = E_SocketEmit(s, "error",
                 [message |-> "Invalid geofence data - missing name or id"])
          /\ UNCHANGED e_geofences
     ELSE LET newGeofence == E_NewGeofence(data, t)
          IN  /\ e_geofences' = Append(e_geofences, newGeofence)
              /\ e_out' = E_BroadcastEmit(s, "updateGeofence", newGeofence)
                          \o E_CreateFanout(s, newGeofence)
                          \o E_SocketEmit(s, "geofenceCreated",
                                 [success |-> TRUE, geofence |-> newGeofence,
                                  message |-> newGeofence.name])

\* the merge of 'updateGeofence': { ...old, ...patch, updatedAt }
E_Merge_PatchOnly(old, patch, t) == [updatedAt |-> t] @@ patch

E_Merge(old, patch, t) == [updatedAt |-> t] @@ patch @@ old

\* the record 'updateGeofence' stores for an id that is not in the store:
\* { ...patch, createdAt, updatedAt }
E_UpsertGeofence_Defaults(data, t) ==
  [createdAt |-> t, updatedAt |-> t] @@ data @@ [type |-> "MONITORING", active |-> TRUE]

E_UpsertGeofence(data, t) == [createdAt |-> t, updatedAt |-> t] @@ data

\* socket.on('updateGeofence')
E_UpdateGeofence(s, data, t) ==
  /\ s \in e_open
  /\ E_GeoEvent("updateGeofence", s, data, t)
  /\ IF ~Truthy(data, "id")
     THEN /\ e_out' = E_SocketEmit(s, "error",
                 [message |-> "Invalid geofence update data - missing id"])
          /\ UNCHANGED e_geofences
     ELSE LET index == E_FindIndex(data.id)
          IN  IF index # 0
              THEN LET merged == E_Merge(e_geofences[index], data, t)
                   IN  /\ e_geofences' = [e_geofences EXCEPT ![index] = merged]
                       /\ e_out' = E_IoEmit("updateGeofence", merged)
              ELSE LET newGeofence == E_UpsertGeofence(data, t)
                   IN  /\ e_geofences' = Append(e_geofences, newGeofence)
                       /\ e_out' = E_IoEmit("updateGeofence", newGeofence)

\* geofences.filter(g => g.id !== id)
E_RemoveById_Truncate(id) ==
  LET index == E_FindIndex(id)
  IN  IF index = 0 THEN e_geofences ELSE SubSeq(e_geofences, 1, index - 1)

E_RemoveById(id) == SelectSeq(e_geofences, LAMBDA g : g.id # id)

\* the test geofences.length < initialLength of 'deleteGeofence'
E_Removed_Always(remaining) == TRUE

E_Removed(remaining) == Len(remaining) < Len(e_geofences)

\* socket.on('deleteGeofence'); the text of the second error names the id
E_DeleteGeofence(s, data, t) ==
  /\ s \in e_open
  /\ E_GeoEvent("deleteGeofence", s, data, t)
  /\ IF ~Truthy(data, "id")
     THEN /\ e_out' = E_SocketEmit(s, "error",
                 [message |-> "Invalid geofence delete data - missing id"])
          /\ UNCHANGED e_geofences
     ELSE LET remaining == E_RemoveById(data.id)
          IN  /\ e_geofences' = remaining
              /\ e_out' = IF E_Removed(remaining)
                          THEN E_IoEmit("deleteGeofence", data)
                          ELSE E_SocketEmit(s, "error",
                                 [message |-> "Geofence not found", id |-> data.id])

\* the record 'setGeofence' stores at time t; the id 'legacy-' + Date.now()
\* is the number -t, which no client sends and no other handler makes
E_LegacyGeofence(data, t) ==
  [id |-> IF Truthy(data, "id") THEN data.id ELSE -t,
   name |-> OrStr(data, "name", "Legacy Geofence"),
   type |-> OrStr(data, "type", "MONITORING"),
   priority |-> OrStr(data, "priority", "medium"),
   active |-> NotFalse(data, "active"),
   points |-> IF Has(data, "points") THEN data.points ELSE <<>>,
   center |-> OrStr(data, "center", Null),
   radius |-> OrStr(data, "radius", Null),
   shapeType |-> OrStr(data, "shapeType",
                       IF TruthyStr(data, "center") THEN "circle" ELSE "polygon"),
   alertOnEntry |-> NotFalse(data, "alertOnEntry"),
   alertOnExit |-> OrFalse(data, "alertOnExit"),
   createdAt |-> t,
   updatedAt |-> t]

\* socket.on('setGeofence')
E_SetGeofence(s, data, t) ==
  /\ s \in e_open
  /\ E_GeoEvent("setGeofence", s, data, t)
  /\ LET newGeofence == E_LegacyGeofence(data, t)
         existingIndex == E_FindIndex(newGeofence.id)
     IN  /\ e_geofences' = IF existingIndex # 0
                           THEN [e_geofences EXCEPT ![existingIndex] = newGeofence]
                           ELSE Append(e_geofences, newGeofence)
         /\ e_out' = E_IoEmit("updateGeofence", newGeofence)

\* the record POST /api/geofences stores at time t: the defaults, then the
\* fields of the body over them; the id Date.now().toString() is the number t
E_RestGeofence(body, t) ==
  body @@
  [id |-> t,
   name |-> "REST API Geofence",
   type |-> "MONITORING",
   priority |-> "medium",
   active |-> TRUE,
   alertOnEntry |-> TRUE,
   alertOnExit |-> FALSE,
   shapeType |-> "polygon",
   points |-> <<>>,
   center |-> Null,
   radius |-> Null,
   createdAt |-> t,
   updatedAt |-> t]

\* app.post('/api/geofences'); the request comes from no socket (sender 0)
E_PostGeofence(body, t) ==
  /\ E_GeoEvent("POST /api/geofences", 0, body, t)
  /\ LET newGeofence == E_RestGeofence(body, t)
     IN  /\ e_geofences' = Append(e_geofences, newGeofence)
         /\ e_out' = E_IoEmit("updateGeofence", newGeofence)

\* the record 'geofenceViolation' forwards at time t: the defaults, then the
\* fields of the report over them (a field whose value is undefined is not
\* transmitted, so it is absent)
E_Violation(data, t) ==
  data @@
  [id |-> t,
   user |-> "Unknown User",
   action |-> "entered",
   geofenceName |-> "Unknown Geofence",
   priority |-> "medium",
   timestamp |-> t,
   receivedAt |-> t]
  @@ (IF Has(data, "lon") THEN [lng |-> data.lon] ELSE <<>>)

\* socket.on('geofenceViolation')
E_GeofenceViolation(s, data, t) ==
  /\ s \in e_open
  /\ E_GeoEvent("geofenceViolation", s, data, t)
  /\ e_out' = E_IoEmit("geofenceViolation", E_Violation(data, t))
  /\ UNCHANGED e_geofences

\* the pending timer that fires next: the earliest due, the first set among
\* equals
E_NextTimer ==
  CHOOSE i \in 1..Len(e_timers) :
    /\ \A j \in 1..Len(e_timers) : e_timers[i].due <= e_timers[j].due
    /\ \A j \in 1..(i - 1) : e_timers[j].due > e_timers[i].due

\* a setTimeout callback of 'identify' runs: socket.emit reaches the socket
\* if it is still connected
E_TimerFires ==
  /\ Len(e_timers) > 0
  /\ LET i == E_NextTimer
         timer == e_timers[i]
         data == IF timer.ev = "allGeofences" THEN e_geofences ELSE timer.geofence
     IN  /\ e_timers' = SubSeq(e_timers, 1, i - 1) \o SubSeq(e_timers, i + 1, Len(e_timers))
         /\ e_now' = IF timer.due > e_now THEN timer.due ELSE e_now
         /\ e_out' = IF timer.to \in e_open THEN <<Emit(timer.to, timer.ev, data)>> ELSE <<>>
  /\ e_last' = [ev |-> "timeout"]
  /\ UNCHANGED <<e_open, e_connectedClients, e_geofences, e_sosAlerts, e_nextSocket,
                 e_sosCount, e_geoCount>>

\* the geofence payloads clients send
E_ZonePayload == [id |-> 1, name |-> "Zone", center |-> "c", radius |-> "r"]

E_YardPayload ==
  [id |-> 2, name |-> "Yard", type |-> "SAFE", active |-> FALSE,
   alertOnEntry |-> FALSE, alertOnExit |-> TRUE, points |-> <<"p", "q", "r">>]

E_CreatePayloads == { E_ZonePayload, E_YardPayload, [name |-> "Zone"], [id |-> 1] }

E_UpdatePayloads == { [id |-> 1, name |-> "Zone B", active |-> FALSE], [name |-> "Zone"] }

E_DeletePayloads == { [id |-> 1], [id |-> 3], [name |-> "Zone"] }

E_LegacyPayloads == { [id |-> 1, name |-> "Old", points |-> <<"p">>], [center |-> "c"] }

E_RestPayloads == { [id |-> 1, name |-> "Rest"], [name |-> "Rest"] }

E_ViolationPayloads ==
  { [user |-> "u", geofenceId |-> 1, action |-> "exited", lat |-> "x", lon |-> "y"] }

\* the relay after k 'createGeofence' events (the Zone, then the Yard) and the
\* departure of every session; k = 0 is the relay right after start
E_PastGeofences(k) ==
  SubSeq(<<E_NewGeofence(E_ZonePayload, Epoch - 2),
           E_NewGeofence(E_YardPayload, Epoch - 1)>>, 1, k)

E_InitAfterGeofences(k) ==
  /\ e_open = {}
  /\ e_hist = E_NoHistory
  /\ e_proc = "up"
  /\ e_connectedClients = <<>>
  /\ e_geofences = E_PastGeofences(k)
  /\ e_sosAlerts = <<>>
  /\ e_timers = <<>>
  /\ e_nextSocket = 1
  /\ e_now = Epoch
  /\ e_sosCount = 0
  /\ e_geoCount = 0
  /\ e_last = [ev |-> "start"]
  /\ e_out = <<>>

\* the 'identify' payloads of these runs
E_IdentifyPayloads == { [type |-> "mobile", name |-> "M"], [type |-> "web"] }

\* the enhanced relay while clients manage geofences
E_NextGeo ==
  \/ e_nextSocket <= MaxGeoSockets /\ E_Connect /\ E_Only
  \/ \E s \in e_open : E_Disconnect(s) /\ E_Only
  \/ \E s \in e_open, data \in E_IdentifyPayloads :
        /\ Len(e_timers) < MaxPendingTimers
        /\ e_now < Epoch + MaxGeoClock
        /\ E_Identify(s, data) /\ E_Only
  \/ E_TimerFires /\ E_Only
  \/ \E s \in e_open, data \in E_CreatePayloads :
        e_geoCount < MaxGeoEvents /\ E_CreateGeofence(s, data, e_now + 1) /\ E_Only
  \/ \E s \in e_open, data \in E_UpdatePayloads :
        e_geoCount < MaxGeoEvents /\ E_UpdateGeofence(s, data, e_now + 1) /\ E_Only
  \/ \E s \in e_open, data \in E_DeletePayloads :
        e_geoCount < MaxGeoEvents /\ E_DeleteGeofence(s, data, e_now + 1) /\ E_Only
  \/ \E s \in e_open, data \in E_LegacyPayloads :
        e_geoCount < MaxGeoEvents /\ E_SetGeofence(s, data, e_now + 1) /\ E_Only
  \/ \E body \in E_RestPayloads :
        e_geoCount < MaxGeoEvents /\ E_PostGeofence(body, e_now + 1) /\ E_Only
  \/ \E s \in e_open, data \in E_ViolationPayloads :
        e_geoCount < MaxGeoEvents /\ E_GeofenceViolation(s, data, e_now + 1) /\ E_Only

\* the setTimeout calls of the 'getGeofences' handler: one per geofence
E_GetGeofencesTimers(s) ==
  [i \in 1..Len(e_geofences) |->
     [to |-> s, ev |-> "updateGeofence", geofence |-> e_geofences[i],
      due |-> e_now + (i - 1) * 50]]

\* socket.on('getGeofences')
E_GetGeofences(s) ==
  /\ s \in e_open
  /\ e_out' = E_SocketEmit(s, "allGeofences", e_geofences)
  /\ e_timers' = e_timers \o E_GetGeofencesTimers(s)
  /\ e_last' = [ev |-> "getGeofences", from |-> s]
  /\ UNCHANGED <<e_open, e_connectedClients, e_geofences, e_sosAlerts, e_nextSocket,
                 e_now, e_sosCount, e_geoCount>>

\* the geofence records an emission carries
E_RecordsIn(o) ==
  CASE o.ev = "updateGeofence" -> {o.data}
    [] o.ev = "geofenceCreated" -> {o.data.geofence}
    [] o.ev = "allGeofences" -> {o.data[i] : i \in 1..Len(o.data)}
    [] OTHER -> {}

E_StoreIds(store) == {store[i].id : i \in 1..Len(store)}

\* the history after a step, for the sessions that are still connected:
\* deleted holds <<session, id>> when the session was sent 'deleteGeofence'
\* for the id and the id has not been added to the store since; sent holds
\* the updatedAt of the latest record of the id the session was sent
E_HistoryAfter ==
  LET emitted == {e_out'[i] : i \in 1..Len(e_out')}
      added == E_StoreIds(e_geofences') \ E_StoreIds(e_geofences)
      deletions == {[to |-> o.to, id |-> o.data.id] :
                      o \in {q \in emitted : q.ev = "deleteGeofence"}}
      records == UNION {{[to |-> o.to, id |-> g.id, at |-> g.updatedAt] :
                           g \in E_RecordsIn(o)} : o \in emitted}
      all == e_hist.sent \cup records
  IN  [deleted |-> {p \in e_hist.deleted \cup deletions :
                      p.to \in e_open' /\ (p.id \notin added \/ p \in deletions)},
       sent |-> {r \in all :
                   /\ r.to \in e_open'
                   /\ \A q \in all : (q.to = r.to /\ q.id = r.id) => q.at <= r.at}]

\* a step of the enhanced relay whose emissions are recorded in the history
E_Observed ==
  e_hist' = E_HistoryAfter /\ UNCHANGED <<lvars, dvars, gvars, e_proc, svars>>

\* the enhanced relay while clients manage geofences and synchronise
E_NextSync ==
  \/ e_nextSocket <= MaxGeoSockets /\ E_Connect /\ E_Observed
  \/ \E s \in e_open : E_Disconnect(s) /\ E_Observed
  \/ \E s \in e_open, data \in E_IdentifyPayloads :
        /\ Len(e_timers) < MaxPendingTimers
        /\ e_now < Epoch + MaxGeoClock
        /\ E_Identify(s, data) /\ E_Observed
  \/ \E s \in e_open :
        /\ Len(e_timers) < MaxPendingTimers
        /\ e_now < Epoch + MaxGeoClock
        /\ E_GetGeofences(s) /\ E_Observed
  \/ E_TimerFires /\ E_Observed
  \/ \E s \in e_open, data \in E_CreatePayloads :
        e_geoCount < MaxGeoEvents /\ E_CreateGeofence(s, data, e_now + 1) /\ E_Observed
  \/ \E s \in e_open, data \in E_UpdatePayloads :
        e_geoCount < MaxGeoEvents /\ E_UpdateGeofence(s, data, e_now + 1) /\ E_Observed
  \/ \E s \in e_open, data \in E_DeletePayloads :
        e_geoCount < MaxGeoEvents /\ E_DeleteGeofence(s, data, e_now + 1) /\ E_Observed
  \/ \E s \in e_open, data \in E_LegacyPayloads :
        e_geoCount < MaxGeoEvents /\ E_SetGeofence(s, data, e_now + 1) /\ E_Observed
  \/ \E body \in E_RestPayloads :
        e_geoCount < MaxGeoEvents /\ E_PostGeofence(body, e_now + 1) /\ E_Observed
  \/ \E s \in e_open, data \in E_ViolationPayloads :
        e_geoCount < MaxGeoEvents /\ E_GeofenceViolation(s, data, e_now + 1) /\ E_Observed

\* ------------------------------------------------------------------------
\* Claims about the enhanced relay's geofence store
\* ------------------------------------------------------------------------
\* a step of the handler of event ev
E_GeoStep(ev) == e_geoCount' = e_geoCount + 1 /\ e_last'.ev = ev

\* the payload of the step has an id, a name
E_WithId == Truthy(e_last'.data, "id")

E_WithName == TruthyStr(e_last'.data, "name")

\* the records of the store with the id of the step's payload
E_Stored == {i \in 1..Len(e_geofences) : e_geofences[i].id = e_last'.data.id}

\* every emission of the step is an event ev to the sender
E_OnlyToSender(ev) ==
  /\ e_out' # <<>>
  /\ \A i \in 1..Len(e_out') : e_out'[i].to = e_last'.from /\ e_out'[i].ev = ev

\* every connected session is sent event ev with payload data once, and
\* nothing else is sent
E_OnceToAll(ev, data) ==
  /\ \A i \in 1..Len(e_out') :
       e_out'[i].to \in E_Ids /\ e_out'[i].ev = ev /\ e_out'[i].data = data
  /\ \A c \in E_Ids : Cardinality(Sent(e_out', c, ev)) = 1

\* C12 as claimed: an accepted 'createGeofence' sends 'updateGeofence' to
\* every session but the sender, whatever the sender's role, and sends the
\* sender one 'geofenceCreated' that carries the stored record.
C12_CreateBroadcast ==
  [][ (E_GeoStep("createGeofence") /\ E_WithId /\ E_WithName) =>
        LET s == e_last'.from
        IN  /\ Sent(e_out', s, "updateGeofence") = {}
            /\ \A c \in E_Ids \ {s} : Sent(e_out', c, "updateGeofence") # {}
            /\ Cardinality(Sent(e_out', s, "geofenceCreated")) = 1
            /\ \A i \in Sent(e_out', s, "geofenceCreated") :
                 e_out'[i].data.geofence = e_geofences'[Len(e_geofences')] ]_evars

\* an 'identify' changes the registry entry of its sender only, sets timers
\* for its sender only, emits nothing to another session and leaves the
\* store and the ledger alone
E_IdentifyFrame ==
  [][ e_last'.ev = "identify" =>
        LET s == e_last'.from
        IN  /\ e_open' = e_open
            /\ Len(e_connectedClients') = Len(e_connectedClients)
            /\ \A i \in 1..Len(e_connectedClients) :
                 \/ e_connectedClients'[i] = e_connectedClients[i]
                 \/ e_connectedClients[i].id = s /\ e_connectedClients'[i].id = s
            /\ \A i \in 1..Len(e_out') : e_out'[i].to = s
            /\ Len(e_timers') >= Len(e_timers)
            /\ SubSeq(e_timers', 1, Len(e_timers)) = e_timers
            /\ \A i \in (Len(e_timers) + 1)..Len(e_timers') : e_timers'[i].to = s
            /\ e_geofences' = e_geofences
            /\ e_sosAlerts' = e_sosAlerts ]_evars

\* session s has just identified itself as mobile to a relay whose store is
\* not empty
E_IdentifiedMobile(s) ==
  /\ e_last.ev = "identify"
  /\ e_last.from = s
  /\ Has(e_last.data, "type") /\ e_last.data.type = "mobile"
  /\ Len(e_geofences) > 0

\* session s is being sent the whole store as 'allGeofences'
E_SentSnapshot(s) ==
  \E i \in Sent(e_out, s, "allGeofences") : e_out[i].data = e_geofences

\* C22 as claimed: an 'identify' touches its sender only, and a session that
\* identifies itself as mobile to a relay with geofences is eventually sent
\* the whole store as 'allGeofences'.
C22_IdentifySnapshot ==
  /\ E_IdentifyFrame
  /\ \A s \in 1..MaxGeoSockets : E_IdentifiedMobile(s) ~> E_SentSnapshot(s)

\* C22 as amended: the snapshot is sent unless the session disconnects before
\* the timer of the snapshot fires.
C22_IdentifySnapshotIfConnected ==
  /\ E_IdentifyFrame
  /\ \A s \in 1..MaxGeoSockets :
       E_IdentifiedMobile(s) ~> (s \notin e_open \/ E_SentSnapshot(s))

\* the timer of the snapshot has fired for a session that is still connected
C22_Witness ==
  /\ e_last.ev = "timeout"
  /\ Len(e_geofences) = 2
  /\ \E s \in e_open :
       /\ E_Client(s).type = "mobile"
       /\ E_SentSnapshot(s)

\* C13: a 'geofenceViolation' is forwarded as one 'geofenceViolation' to every
\* connected session, whatever its role, the reporter included, and leaves
\* the store alone.
C13_ViolationToAll ==
  [][ E_GeoStep("geofenceViolation") =>
        /\ \A i \in 1..Len(e_out') :
             e_out'[i].to \in E_Ids /\ e_out'[i].ev = "geofenceViolation"
        /\ \A c \in E_Ids : Cardinality(Sent(e_out', c, "geofenceViolation")) = 1
        /\ e_geofences' = e_geofences ]_evars

\* a mobile session reports a violation while a web session is connected
C13_Witness ==
  /\ e_last.ev = "geofenceViolation"
  /\ E_Client(e_last.from).type = "mobile"
  /\ \E c \in E_Ids : E_Client(c).type = "web"
  /\ Cardinality(SentAll(e_out, "geofenceViolation")) = 2

\* C14: 'deleteGeofence' with an id that is not in the store leaves the store
\* unchanged and sends 'error' to the sender and nothing to anyone else.
C14_DeleteUnknown ==
  [][ (E_GeoStep("deleteGeofence") /\ E_WithId /\ E_Stored = {}) =>
        /\ e_geofences' = e_geofences
        /\ E_OnlyToSender("error") ]_evars

\* id 3 is deleted from a store that holds the ids 1 and 2
C14_Witness ==
  /\ e_last.ev = "deleteGeofence"
  /\ Truthy(e_last.data, "id")
  /\ Len(e_geofences) = 2
  /\ Cardinality(E_Ids) = 2
  /\ Cardinality(SentAll(e_out, "error")) = 1

\* C15: 'deleteGeofence' with an id in the store removes the records with
\* that id, keeps the others as they were and in their order, and sends
\* 'deleteGeofence' with the payload once to every session.
C15_DeleteKnown ==
  [][ (E_GeoStep("deleteGeofence") /\ E_WithId /\ E_Stored # {}) =>
        LET x == e_last'.data.id
            others == {i \in 1..Len(e_geofences) : e_geofences[i].id # x}
        IN  /\ \A i \in 1..Len(e_geofences') : e_geofences'[i].id # x
            /\ Len(e_geofences') = Cardinality(others)
            /\ \A i \in others :
                 e_geofences'[Cardinality({j \in others : j <= i})] = e_geofences[i]
            /\ E_OnceToAll("deleteGeofence", e_last'.data) ]_evars

\* id 1 is deleted from a store that held the ids 1 and 2
C15_Witness ==
  /\ e_last.ev = "deleteGeofence"
  /\ Truthy(e_last.data, "id")
  /\ e_last.data.id = 1
  /\ Len(e_geofences) = 1
  /\ e_geofences[1].id = 2
  /\ Cardinality(E_Ids) = 2
  /\ Cardinality(SentAll(e_out, "deleteGeofence")) = 2

\* C16: a 'createGeofence' without id or name, an 'updateGeofence' without id
\* and a 'deleteGeofence' without id leave the store unchanged and send
\* 'error' to the sender and nothing to anyone else.
C16_ValidationRejects ==
  [][ ( \/ E_GeoStep("createGeofence") /\ ~(E_WithId /\ E_WithName)
        \/ E_GeoStep("updateGeofence") /\ ~E_WithId
        \/ E_GeoStep("deleteGeofence") /\ ~E_WithId ) =>
        /\ e_geofences' = e_geofences
        /\ E_OnlyToSender("error")
        /\ Len(e_out') = 1 ]_evars

\* a 'createGeofence' without a name is refused while another session is
\* connected and the store holds geofences
C16_Witness ==
  /\ e_last.ev = "createGeofence"
  /\ Has(e_last.data, "id")
  /\ ~Has(e_last.data, "name")
  /\ Len(e_geofences) = 2
  /\ Cardinality(E_Ids) = 2
  /\ Cardinality(Sent(e_out, e_last.from, "error")) = 1

\* C17: a 'createGeofence' with id and name appends one record to the store;
\* the record has the payload's id and name, and active = true, type
\* MONITORING, alertOnEntry = true, alertOnExit = false where the payload
\* omits the field.
C17_CreateAppends ==
  [][ (E_GeoStep("createGeofence") /\ E_WithId /\ E_WithName) =>
        LET data == e_last'.data
            g == e_geofences'[Len(e_geofences')]
        IN  /\ Len(e_geofences') = Len(e_geofences) + 1
            /\ SubSeq(e_geofences', 1, Len(e_geofences)) = e_geofences
            /\ g.id = data.id
            /\ g.name = data.name
            /\ ~Has(data, "active") => g.active = TRUE
            /\ ~Has(data, "type") => g.type = "MONITORING"
            /\ ~Has(data, "alertOnEntry") => g.alertOnEntry = TRUE
            /\ ~Has(data, "alertOnExit") => g.alertOnExit = FALSE ]_evars

\* the Zone, whose payload has neither active nor type, is added as the third
\* geofence
C17_Witness ==
  /\ e_last.ev = "createGeofence"
  /\ ~Has(e_last.data, "active")
  /\ ~Has(e_last.data, "type")
  /\ Len(e_geofences) = 3
  /\ e_geofences[3].active
  /\ e_geofences[3].type = "MONITORING"

\* C18 as claimed: a 'createGeofence' without shapeType is stored with
\* shapeType circle if the payload has a center and polygon otherwise.
C18_ShapeInferred ==
  [][ ( /\ E_GeoStep("createGeofence") /\ E_WithId /\ E_WithName
        /\ ~Has(e_last'.data, "shapeType") ) =>
        e_geofences'[Len(e_geofences')].shapeType =
          IF TruthyStr(e_last'.data, "center") THEN "circle" ELSE "polygon" ]_evars

\* C19 as claimed: no two records of the store have the same id.
C19_UniqueIds ==
  \A i, j \in 1..Len(e_geofences) : i # j => e_geofences[i].id # e_geofences[j].id

\* C20: 'updateGeofence' with an id in the store replaces the first record
\* with that id by the old record overwritten with the patch, with updatedAt
\* set to the time of the update; the length of the store and the other
\* records stay, and every session is sent the new record once.
C20_UpdateMerges ==
  [][ (E_GeoStep("updateGeofence") /\ E_WithId /\ E_Stored # {}) =>
        LET patch == e_last'.data
            index == CHOOSE i \in E_Stored : \A j \in E_Stored : i <= j
            old == e_geofences[index]
            new == e_geofences'[index]
        IN  /\ Len(e_geofences') = Len(e_geofences)
            /\ \A j \in 1..Len(e_geofences) : j # index => e_geofences'[j] = e_geofences[j]
            /\ DOMAIN new = DOMAIN old \cup DOMAIN patch \cup {"updatedAt"}
            /\ \A f \in DOMAIN patch \ {"updatedAt"} : new[f] = patch[f]
            /\ \A f \in DOMAIN old \ (DOMAIN patch \cup {"updatedAt"}) : new[f] = old[f]
            /\ new.updatedAt = e_now'
            /\ new.updatedAt > old.updatedAt
            /\ E_OnceToAll("updateGeofence", new) ]_evars

\* C21: 'updateGeofence' with an id that is not in the store appends one
\* record, which has the fields of the patch with the patch's values, createdAt
\* and updatedAt set to the time of the update, and no other field; no 'error'
\* is sent and every session is sent the new record once.
C21_UpdateUnknownCreates ==
  [][ (E_GeoStep("updateGeofence") /\ E_WithId /\ E_Stored = {}) =>
        LET patch == e_last'.data
            new == e_geofences'[Len(e_geofences')]
        IN  /\ Len(e_geofences') = Len(e_geofences) + 1
            /\ SubSeq(e_geofences', 1, Len(e_geofences)) = e_geofences
            /\ new.id = patch.id
            /\ DOMAIN new = DOMAIN patch \cup {"createdAt", "updatedAt"}
            /\ \A f \in DOMAIN patch \ {"createdAt", "updatedAt"} : new[f] = patch[f]
            /\ new.createdAt = e_now' /\ new.updatedAt = e_now'
            /\ SentAll(e_out', "error") = {}
            /\ E_OnceToAll("updateGeofence", new) ]_evars

\* the patch of id 1 is sent to a relay whose store is empty
C21_Witness ==
  /\ e_last.ev = "updateGeofence"
  /\ Truthy(e_last.data, "id")
  /\ Len(e_geofences) = 1
  /\ e_geofences[1].name = "Zone B"
  /\ ~Has(e_geofences[1], "type")
  /\ Cardinality(E_Ids) = 2
  /\ Cardinality(SentAll(e_out, "updateGeofence")) = 2

\* the Zone is renamed and switched off: its shape data stay, the Yard stays
C20_Witness ==
  /\ e_last.ev = "updateGeofence"
  /\ Len(e_geofences) = 2
  /\ e_geofences[1].name = "Zone B"
  /\ ~e_geofences[1].active
  /\ e_geofences[1].center = "c"
  /\ e_geofences[2].name = "Yard"
  /\ Cardinality(E_Ids) = 2
  /\ Cardinality(SentAll(e_out, "updateGeofence")) = 2

\* C29 as claimed: a session that was sent 'deleteGeofence' for an id is not
\* sent an 'updateGeofence' with a record of that id unless the id was added
\* to the store again in between, and no session is sent a record of an id
\* that is older than a record of that id it was sent before.
C29_NoStaleSends ==
  [][ \A i \in 1..Len(e_out') :
        LET o == e_out'[i]
        IN  \A g \in E_RecordsIn(o) :
              /\ o.ev = "updateGeofence" =>
                   [to |-> o.to, id |-> g.id] \notin e_hist.deleted
              /\ \A r \in e_hist.sent :
                   (r.to = o.to /\ r.id = g.id) => g.updatedAt >= r.at ]_vars

\* ------------------------------------------------------------------------
\* The pull events and the relay process
\* ------------------------------------------------------------------------
\* the slice of the ledger the 'getRecentAlerts' handler sends
RecentAlertsMax == 50

\* the relay after k 'createGeofence' and n 'sos' events and the departure of
\* every session
E_InitAfterBoth(k, n) ==
  /\ e_open = {}
  /\ e_hist = E_NoHistory
  /\ e_proc = "up"
  /\ e_connectedClients = <<>>
  /\ e_geofences = E_PastGeofences(k)
  /\ e_sosAlerts = [i \in 1..n |-> E_PastAlert(i)]
  /\ e_timers = <<>>
  /\ e_nextSocket = 1
  /\ e_now = Epoch
  /\ e_sosCount = 0
  /\ e_geoCount = 0
  /\ e_last = [ev |-> "start"]
  /\ e_out = <<>>

\* socket.on('getRecentAlerts')
E_GetRecentAlerts_Drain(s) ==
  /\ s \in e_open
  /\ e_out' = E_SocketEmit(s, "recentAlerts", SliceHead(e_sosAlerts, RecentAlertsMax))
  /\ e_sosAlerts' = SubSeq(e_sosAlerts, RecentAlertsMax + 1, Len(e_sosAlerts))
  /\ e_last' = [ev |-> "getRecentAlerts", from |-> s]
  /\ UNCHANGED <<e_open, e_connectedClients, e_geofences, e_timers,
                 e_nextSocket, e_now, e_sosCount, e_geoCount>>

E_GetRecentAlerts(s) ==
  /\ s \in e_open
  /\ e_out' = E_SocketEmit(s, "recentAlerts", SliceHead(e_sosAlerts, RecentAlertsMax))
  /\ e_last' = [ev |-> "getRecentAlerts", from |-> s]
  /\ UNCHANGED <<e_open, e_connectedClients, e_geofences, e_sosAlerts, e_timers,
                 e_nextSocket, e_now, e_sosCount, e_geoCount>>

\* the process started before the oldest alert of a prefilled ledger
E_ProcessStart == Epoch - LedgerMax - 1

\* the status object of the 'getServerStatus' handler
E_ServerStatus ==
  [connectedClients |-> Len(e_connectedClients),
   totalGeofences |-> Len(e_geofences),
   activeGeofences |->
     Len(SelectSeq(e_geofences, LAMBDA g : Has(g, "active") /\ g.active = TRUE)),
   recentAlerts |-> Len(e_sosAlerts),
   uptime |-> e_now - E_ProcessStart,
   timestamp |-> e_now]

\* socket.on('getServerStatus')
E_GetServerStatus(s) ==
  /\ s \in e_open
  /\ e_out' = E_SocketEmit(s, "serverStatus", E_ServerStatus)
  /\ e_last' = [ev |-> "getServerStatus", from |-> s]
  /\ UNCHANGED <<e_open, e_connectedClients, e_geofences, e_sosAlerts, e_timers,
                 e_nextSocket, e_now, e_sosCount, e_geoCount>>

\* the events whose handler reads a field of its payload in its first
\* statements (the console.log lines), before any test of the payload
E_PayloadEvents ==
  {"sos", "setGeofence", "createGeofence", "updateGeofence", "deleteGeofence",
   "identify", "geofenceViolation"}

\* an event of E_PayloadEvents that arrives without a payload (undefined) or
\* with null: reading the field throws a TypeError, the handler ends there,
\* and process.on('uncaughtException') runs gracefulShutdown, which closes
\* the server and arms the timer that ends the process
E_AbsentPayload(s, ev) ==
  /\ s \in e_open
  /\ ev \in E_PayloadEvents
  /\ e_proc' = "closing"
  /\ e_out' = <<>>
  /\ e_last' = [ev |-> ev, from |-> s, absent |-> TRUE]
  /\ UNCHANGED <<e_open, e_connectedClients, e_geofences, e_sosAlerts, e_timers,
                 e_nextSocket, e_now, e_sosCount, e_geoCount>>

\* process.exit, from the callback of server.close or from the 5 s timer:
\* every socket closes and the registry, the store and the ledger, which
\* live in the memory of the process, are gone
E_ProcessExit ==
  /\ e_proc = "closing"
  /\ e_proc' = "exited"
  /\ e_open' = {}
  /\ e_connectedClients' = <<>>
  /\ e_geofences' = <<>>
  /\ e_sosAlerts' = <<>>
  /\ e_timers' = <<>>
  /\ e_out' = <<>>
  /\ e_last' = [ev |-> "exit"]
  /\ UNCHANGED <<e_nextSocket, e_now, e_sosCount, e_geoCount>>

\* a step of the enhanced relay that may change the state of its process
E_ProcOnly == UNCHANGED <<lvars, dvars, e_hist, gvars, svars>>

\* the 'identify' payload of the device app (its connectedAt is a reading of
\* the device's clock) and the one of a web monitor
E_ProfilePayloads ==
  { [type |-> "mobile", name |-> "M", platform |-> "flutter", userId |-> "u",
     connectedAt |-> Epoch - 3],
    [type |-> "web"] }

\* the relay serving sessions that identify, pull and report violations
E_NextServe ==
  \/ e_proc = "up" /\ e_nextSocket <= MaxGeoSockets /\ E_Connect /\ E_Only
  \/ \E s \in e_open : E_Disconnect(s) /\ E_Only
  \/ \E s \in e_open, data \in E_ProfilePayloads :
        /\ Len(e_timers) < MaxPendingTimers
        /\ e_now < Epoch + MaxGeoClock
        /\ E_Identify(s, data) /\ E_Only
  \/ \E s \in e_open :
        /\ Len(e_timers) < MaxPendingTimers
        /\ e_now < Epoch + MaxGeoClock
        /\ E_GetGeofences(s) /\ E_Only
  \/ \E s \in e_open : E_GetRecentAlerts(s) /\ E_Only
  \/ \E s \in e_open : E_GetServerStatus(s) /\ E_Only
  \/ \E s \in e_open, data \in E_ViolationPayloads :
        e_geoCount < MaxGeoEvents /\ E_GeofenceViolation(s, data, e_now + 1) /\ E_Only
  \/ E_TimerFires /\ E_Only
  \/ \E s \in e_open, ev \in E_PayloadEvents : E_AbsentPayload(s, ev) /\ E_ProcOnly
  \/ E_ProcessExit /\ E_ProcOnly

\* C34: the pull events and 'geofenceViolation' leave the registry, the
\* store and the ledger unchanged; a pull event replies to the requester
\* only, and a violation is forwarded to every session and stored nowhere
C34_PullEventsReadOnly ==
  [][ (Has(e_last', "from") /\ ~Has(e_last', "absent") /\
       e_last'.ev \in {"getGeofences", "getRecentAlerts", "getServerStatus",
                       "geofenceViolation"})
      => /\ UNCHANGED <<e_connectedClients, e_geofences, e_sosAlerts>>
         /\ e_last'.ev # "geofenceViolation"
              => /\ Len(e_out') = 1
                 /\ e_out'[1].to = e_last'.from
         /\ e_last'.ev = "geofenceViolation"
              => /\ Len(e_out') = Len(e_connectedClients)
                 /\ \A i \in 1..Len(e_out') :
                       /\ e_out'[i].to = e_connectedClients[i].id
                       /\ e_out'[i].ev = "geofenceViolation"
         /\ e_last'.ev = "getRecentAlerts"
              => e_out'[1].data = SliceHead(e_sosAlerts, RecentAlertsMax)
         /\ e_last'.ev = "getGeofences" => e_out'[1].data = e_geofences
    ]_vars

\* each of the four events was handled by a relay that holds two sessions,
\* geofences and more alerts than one reply carries
C34_Witness ==
  /\ Len(e_connectedClients) = 2
  /\ Len(e_geofences) = 2
  /\ Len(e_sosAlerts) > RecentAlertsMax
  /\ Has(e_last, "from") /\ ~Has(e_last, "absent")
  /\ e_last.ev = "getRecentAlerts"
  /\ Len(e_out) = 1 /\ Len(e_out[1].data) = RecentAlertsMax

\* C37 as claimed: an event without a payload leaves the registry, the store
\* and the ledger unchanged and the relay up, and the relay process never
\* ends
C37_AbsentPayloadHarmless ==
  /\ [][ Has(e_last', "absent")
         => /\ UNCHANGED <<e_connectedClients, e_geofences, e_sosAlerts>>
            /\ e_proc' = "up" ]_vars
  /\ [](e_proc # "exited")

\* C39 as claimed: every registry entry keeps the id it is keyed by and the
\* connectedAt the relay set at connect, whatever 'identify' payloads arrive
C39_RelayFieldsImmutable ==
  [][ \A i \in 1..Len(e_connectedClients), j \in 1..Len(e_connectedClients') :
        e_connectedClients'[j].id = e_connectedClients[i].id
        => e_connectedClients'[j].connectedAt = e_connectedClients[i].connectedAt
    ]_vars

\* C38 as claimed: an accepted 'createGeofence' sends the new record to
\* every session other than the sender exactly once
C38_CreateOncePerRecipient ==
  [][ (E_GeoStep("createGeofence") /\ E_WithId /\ E_WithName) =>
        \A c \in E_Ids \ {e_last'.from} :
           Cardinality(Sent(e_out', c, "updateGeofence")) = 1 ]_evars

\* ========================================================================
\* The device app (src/unnamed/part_001, lines 690-2095): alert submission
\* and the connection to the relay
\* ========================================================================
\* Dart runs one callback at a time, so a callback (up to its first await) is
\* one action.  Time is in milliseconds; a timer fires when it is due.
NoTime == -1
NoId == [ts |-> NoTime, rnd |-> 0]
NoTimer == [kind |-> "none", due |-> NoTime]

D_Init ==
  /\ d_now = 0
  /\ d_mounted = TRUE
  /\ d_isSOSInProgress = FALSE
  /\ d_lastSOSTime = NoTime
  /\ d_protSOSId = NoId
  /\ d_sentSOSIds = <<>>
  /\ d_localSOSInProgress = FALSE
  /\ d_currentSOSId = NoId
  /\ d_sosTimeoutTimer = NoTimer
  /\ d_sosStream = <<>>
  /\ d_timers = {}
  /\ d_socket = "null"
  /\ d_isConnected = FALSE
  /\ d_reconnectAttempts = 0
  /\ d_reconnectTimer = NoTimer
  /\ d_statusMessage = "Initializing Vortex SOS..."
  /\ d_sosSent = <<>>
  /\ d_accepted = <<>>
  /\ d_trigger = [n |-> 0, result |-> "none"]

D_SubmitterVars == <<d_isSOSInProgress, d_lastSOSTime, d_protSOSId, d_sentSOSIds,
                     d_localSOSInProgress, d_currentSOSId, d_sosTimeoutTimer,
                     d_sosStream, d_sosSent, d_accepted>>

D_ConnectionVars == <<d_socket, d_isConnected, d_reconnectAttempts, d_reconnectTimer,
                      d_statusMessage>>

\* SOSProtection.canSendSOS
D_CanSendSOS ==
  /\ ~d_isSOSInProgress
  /\ ~(d_lastSOSTime # NoTime /\ d_now - d_lastSOSTime < SosDebounce)

\* SOSProtection.wasSOSAlreadySent
D_WasSOSAlreadySent(sosId) == InSeq(d_sentSOSIds, sosId)

\* layer 3 of sendSOS: the connection check
D_ChannelUp_Always == TRUE

D_ChannelUp == d_socket # "null" /\ d_isConnected

\* layers 1 to 3 of sendSOS
D_TriggerAllowed_DebounceOnly ==
  /\ ~(d_lastSOSTime # NoTime /\ d_now - d_lastSOSTime < SosDebounce)
  /\ D_ChannelUp

D_TriggerAllowed == D_CanSendSOS /\ ~d_localSOSInProgress /\ D_ChannelUp

\* why sendSOS returns early, in the order of its checks
D_Rejection ==
  IF ~D_CanSendSOS THEN "blockedByProtection"
  ELSE IF d_localSOSInProgress THEN "blockedLocally"
  ELSE "notConnected"

\* sendSOS; rnd is the random part of the id
D_SendSOS(rnd) ==
  /\ d_mounted
  /\ LET sosId == [ts |-> d_now, rnd |-> rnd]
     IN  IF ~D_TriggerAllowed
         THEN /\ d_trigger' = [n |-> d_trigger.n + 1, result |-> D_Rejection]
              /\ UNCHANGED D_SubmitterVars
         ELSE IF D_WasSOSAlreadySent(sosId)
         THEN /\ d_trigger' = [n |-> d_trigger.n + 1, result |-> "alreadySent"]
              /\ UNCHANGED D_SubmitterVars
         ELSE /\ d_trigger' = [n |-> d_trigger.n + 1, result |-> "accepted"]
              \* SOSProtection.startSOS
              /\ d_isSOSInProgress' = TRUE
              /\ d_protSOSId' = sosId
              /\ d_lastSOSTime' = d_now
              /\ d_sentSOSIds' = IF InSeq(d_sentSOSIds, sosId) THEN d_sentSOSIds
                                 ELSE Append(d_sentSOSIds, sosId)
              /\ d_localSOSInProgress' = TRUE
              /\ d_currentSOSId' = sosId
              /\ d_sosStream' = Append(d_sosStream, sosId)
              /\ d_accepted' = Append(d_accepted, [id |-> sosId, at |-> d_now])
              /\ UNCHANGED <<d_sosTimeoutTimer, d_sosSent>>
  /\ UNCHANGED <<d_now, d_mounted, d_timers>>
  /\ UNCHANGED D_ConnectionVars

\* Timer.cancel on a timer handle
D_Cancel(timers, handle) == timers \ {handle}

D_CleanupIds_KeepOldest(ids) ==
  IF Len(ids) > SentIdsMax THEN SliceHead(ids, SentIdsKeep) ELSE ids

\* SOSProtection.cleanup
D_CleanupIds(ids) == IF Len(ids) > SentIdsMax THEN SliceTail(ids, SentIdsKeep) ELSE ids

D_ResetSOSState_KeepId(timers) ==
  /\ IF d_mounted
     THEN d_localSOSInProgress' = FALSE /\ d_currentSOSId' = NoId
     ELSE UNCHANGED <<d_localSOSInProgress, d_currentSOSId>>
  /\ d_timers' = D_Cancel(timers, d_sosTimeoutTimer)
  /\ d_sosTimeoutTimer' = NoTimer
  /\ d_isSOSInProgress' = FALSE
  /\ d_protSOSId' = d_protSOSId
  /\ d_sentSOSIds' = D_CleanupIds(d_sentSOSIds)

\* _resetSOSState, with `timers` the pending timers when it is called
D_ResetSOSState(timers) ==
  /\ IF d_mounted
     THEN d_localSOSInProgress' = FALSE /\ d_currentSOSId' = NoId
     ELSE UNCHANGED <<d_localSOSInProgress, d_currentSOSId>>
  /\ d_timers' = D_Cancel(timers, d_sosTimeoutTimer)
  /\ d_sosTimeoutTimer' = NoTimer
  /\ d_isSOSInProgress' = FALSE
  /\ d_protSOSId' = NoId
  /\ d_sentSOSIds' = D_CleanupIds(d_sentSOSIds)

\* _handleSOSEvent and, inside it, _processSingleSOS up to its await
D_HandleSOSEvent ==
  /\ d_sosStream # <<>>
  /\ d_sosStream' = Tail(d_sosStream)
  /\ LET sosId == Head(d_sosStream)
         timeout == [kind |-> "sosTimeout", due |-> d_now + SosTimeout]
         sent == [kind |-> "sosSent", due |-> d_now + SosSendDelay]
     IN  IF D_WasSOSAlreadySent(sosId) \/ ~d_mounted
         THEN UNCHANGED <<d_sosTimeoutTimer, d_timers, d_sosSent>>
         ELSE /\ d_sosTimeoutTimer' = timeout
              /\ d_timers' = d_timers \cup {timeout, sent}
              /\ d_sosSent' = Append(d_sosSent, sosId)
  /\ UNCHANGED <<d_now, d_mounted, d_isSOSInProgress, d_lastSOSTime, d_protSOSId,
                 d_sentSOSIds, d_localSOSInProgress, d_currentSOSId, d_accepted,
                 d_trigger>>
  /\ UNCHANGED D_ConnectionVars

\* _connectToServer
D_ConnectToServer ==
  IF d_socket = "connected"
  THEN UNCHANGED d_socket
  ELSE d_socket' = "connecting"

D_StartReconnectTimer_NoCap(timers, status) ==
  LET timer == [kind |-> "reconnect",
                due |-> d_now + ReconnectBase + d_reconnectAttempts * ReconnectStep]
  IN  /\ d_statusMessage' = status
      /\ d_reconnectTimer' = timer
      /\ d_timers' = D_Cancel(timers, d_reconnectTimer) \cup {timer}

\* _startReconnectTimer, with `timers` the pending timers and `status` the
\* status message when it is called
D_StartReconnectTimer(timers, status) ==
  IF d_reconnectAttempts >= MaxReconnectAttempts
  THEN /\ d_statusMessage' = "Unable to connect to emergency services"
       /\ d_timers' = timers
       /\ UNCHANGED d_reconnectTimer
  ELSE LET timer == [kind |-> "reconnect",
                     due |-> d_now + ReconnectBase + d_reconnectAttempts * ReconnectStep]
       IN  /\ d_statusMessage' = status
           /\ d_reconnectTimer' = timer
           /\ d_timers' = D_Cancel(timers, d_reconnectTimer) \cup {timer}

\* the end of _initializeApp: the first _connectToServer
D_InitializeApp ==
  /\ d_mounted
  /\ d_socket = "null"
  /\ d_statusMessage' = "Connecting to emergency services..."
  /\ D_ConnectToServer
  /\ UNCHANGED <<d_now, d_mounted, d_timers, d_isConnected, d_reconnectAttempts,
                 d_reconnectTimer, d_trigger>>
  /\ UNCHANGED D_SubmitterVars

\* socket.onConnect
D_OnConnect ==
  /\ d_socket \in {"connecting", "disconnected"}
  /\ d_socket' = "connected"
  /\ IF ~d_mounted
     THEN UNCHANGED <<d_reconnectAttempts, d_reconnectTimer, d_timers, d_isConnected,
                      d_statusMessage>>
     ELSE /\ d_reconnectAttempts' = 0
          /\ d_timers' = D_Cancel(d_timers, d_reconnectTimer)
          /\ d_reconnectTimer' = NoTimer
          /\ d_isConnected' = TRUE
          /\ d_statusMessage' = "Connected to emergency services"
  /\ UNCHANGED <<d_now, d_mounted, d_trigger>>
  /\ UNCHANGED D_SubmitterVars

\* socket.onDisconnect
D_OnDisconnect ==
  /\ d_socket = "connected"
  /\ d_socket' = "disconnected"
  /\ IF ~d_mounted
     THEN UNCHANGED <<d_reconnectAttempts, d_reconnectTimer, d_timers, d_isConnected,
                      d_statusMessage>>
     ELSE /\ d_isConnected' = FALSE
          /\ D_StartReconnectTimer(d_timers, "Disconnected from emergency services")
          /\ UNCHANGED d_reconnectAttempts
  /\ UNCHANGED <<d_now, d_mounted, d_trigger>>
  /\ UNCHANGED D_SubmitterVars

\* socket.onConnectError
D_OnConnectError ==
  /\ d_socket \in {"connecting", "disconnected"}
  /\ d_socket' = "disconnected"
  /\ IF ~d_mounted
     THEN UNCHANGED <<d_reconnectAttempts, d_reconnectTimer, d_timers, d_isConnected,
                      d_statusMessage>>
     ELSE /\ d_isConnected' = FALSE
          /\ D_StartReconnectTimer(d_timers, "Connection failed - retrying...")
          /\ UNCHANGED d_reconnectAttempts
  /\ UNCHANGED <<d_now, d_mounted, d_trigger>>
  /\ UNCHANGED D_SubmitterVars

\* a due timer or delayed future runs its callback
D_TimerFires(t) ==
  /\ t \in d_timers
  /\ t.due <= d_now
  /\ CASE t.kind = "reconnect" ->
            \* the callback of _startReconnectTimer
            /\ IF ~d_mounted
               THEN UNCHANGED <<d_reconnectAttempts, d_socket>>
               ELSE d_reconnectAttempts' = d_reconnectAttempts + 1 /\ D_ConnectToServer
            /\ d_timers' = d_timers \ {t}
            /\ UNCHANGED <<d_isConnected, d_reconnectTimer, d_statusMessage>>
            /\ UNCHANGED D_SubmitterVars
       [] t.kind = "sosSent" ->
            \* _processSingleSOS after its await: cancel the timeout, then the
            \* finally block sets the settle timer
            /\ d_timers' = D_Cancel(d_timers \ {t}, d_sosTimeoutTimer)
                             \cup {[kind |-> "sosSettle", due |-> d_now + SosSettle]}
            /\ d_sosTimeoutTimer' = NoTimer
            /\ UNCHANGED <<d_isSOSInProgress, d_lastSOSTime, d_protSOSId, d_sentSOSIds,
                           d_localSOSInProgress, d_currentSOSId, d_sosStream,
                           d_sosSent, d_accepted>>
            /\ UNCHANGED D_ConnectionVars
       [] t.kind \in {"sosTimeout", "sosSettle"} ->
            \* the callbacks of the timeout timer and of the settle timer
            /\ D_ResetSOSState(d_timers \ {t})
            /\ UNCHANGED <<d_lastSOSTime, d_sosStream, d_sosSent, d_accepted>>
            /\ UNCHANGED D_ConnectionVars
  /\ UNCHANGED <<d_now, d_mounted, d_trigger>>

\* dispose
D_Dispose ==
  /\ d_mounted
  /\ d_mounted' = FALSE
  /\ d_socket' = "disposed"
  /\ d_timers' = D_Cancel(D_Cancel(d_timers, d_reconnectTimer), d_sosTimeoutTimer)
  /\ d_reconnectTimer' = NoTimer
  /\ d_sosTimeoutTimer' = NoTimer
  /\ UNCHANGED <<d_now, d_isSOSInProgress, d_lastSOSTime, d_protSOSId, d_sentSOSIds,
                 d_localSOSInProgress, d_currentSOSId, d_sosStream, d_isConnected,
                 d_reconnectAttempts, d_statusMessage, d_sosSent, d_accepted, d_trigger>>

\* time passes, up to the next timer
D_Tick(step) ==
  /\ step > 0
  /\ \A t \in d_timers : d_now + step <= t.due
  /\ d_now' = d_now + step
  /\ UNCHANGED <<d_mounted, d_timers, d_trigger>>
  /\ UNCHANGED D_SubmitterVars
  /\ UNCHANGED D_ConnectionVars

D_TickSteps == {TickStep} \cup {t.due - d_now : t \in d_timers}

D_Next ==
  \/ D_InitializeApp /\ D_Only
  \/ D_OnConnect /\ D_Only
  \/ D_OnDisconnect /\ D_Only
  \/ D_OnConnectError /\ D_Only
  \/ \E rnd \in 0..MaxRandom - 1 : d_trigger.n < MaxTriggers /\ D_SendSOS(rnd) /\ D_Only
  \/ D_HandleSOSEvent /\ D_Only
  \/ \E t \in d_timers : D_TimerFires(t) /\ D_Only
  \/ \E step \in D_TickSteps : d_now + step <= MaxTime /\ D_Tick(step) /\ D_Only
  \/ D_Dispose /\ D_Only

\* the cloud button of the app bar, while the device is not connected
D_UserRetry ==
  /\ d_mounted
  /\ d_socket # "null"
  /\ ~d_isConnected
  /\ D_ConnectToServer
  /\ UNCHANGED <<d_now, d_mounted, d_timers, d_isConnected, d_reconnectAttempts,
                 d_reconnectTimer, d_statusMessage, d_trigger>>
  /\ UNCHANGED D_SubmitterVars

\* onError of the position stream, which _initializeApp has started and
\* dispose cancels
D_LocationError ==
  /\ d_mounted
  /\ d_socket # "null"
  /\ d_statusMessage' = "Location tracking error"
  /\ UNCHANGED <<d_now, d_mounted, d_timers, d_socket, d_isConnected,
                 d_reconnectAttempts, d_reconnectTimer, d_trigger>>
  /\ UNCHANGED D_SubmitterVars

\* the events of a device whose user sends no SOS; time passes up to the next
\* timer
D_NextReconnect ==
  \/ D_InitializeApp /\ D_Only
  \/ D_LocationError /\ D_Only
  \/ D_OnConnect /\ D_Only
  \/ D_OnDisconnect /\ D_Only
  \/ D_OnConnectError /\ D_Only
  \/ D_UserRetry /\ D_Only
  \/ \E t \in d_timers : D_TimerFires(t) /\ D_Only
  \/ \E t \in d_timers :
       /\ d_now < t.due
       /\ t.due <= MaxReconnectTime
       /\ D_Tick(t.due - d_now) /\ D_Only
  \/ D_Dispose /\ D_Only

\* The device at the await of _processSingleSOS (line 1409): connected, with
\* the attempt of id <user>_0_0 started at time 0, its 'sos' emitted, the
\* timeout timer set and the 800 ms delay running.
D_InitInFlight ==
  LET sosId   == [ts |-> 0, rnd |-> 0]
      timeout == [kind |-> "sosTimeout", due |-> SosTimeout]
      sent    == [kind |-> "sosSent", due |-> SosSendDelay]
  IN  /\ d_now = 0
      /\ d_mounted = TRUE
      /\ d_isSOSInProgress = TRUE
      /\ d_lastSOSTime = 0
      /\ d_protSOSId = sosId
      /\ d_sentSOSIds = <<sosId>>
      /\ d_localSOSInProgress = TRUE
      /\ d_currentSOSId = sosId
      /\ d_sosTimeoutTimer = timeout
      /\ d_sosStream = <<>>
      /\ d_timers = {timeout, sent}
      /\ d_socket = "connected"
      /\ d_isConnected = TRUE
      /\ d_reconnectAttempts = 0
      /\ d_reconnectTimer = NoTimer
      /\ d_statusMessage = "Connected to emergency services"
      /\ d_sosSent = <<sosId>>
      /\ d_accepted = <<[id |-> sosId, at |-> 0]>>
      /\ d_trigger = [n |-> 1, result |-> "accepted"]

\* The same, n earlier attempts having left their ids in _sentSOSIds: the
\* attempt k of them started at time -k * SosTimeout.
D_InitInFlightAfter(n) ==
  LET sosId   == [ts |-> 0, rnd |-> 0]
      earlier == [k \in 1..n |-> [ts |-> 0 - (n + 1 - k) * SosTimeout, rnd |-> 0]]
      timeout == [kind |-> "sosTimeout", due |-> SosTimeout]
      sent    == [kind |-> "sosSent", due |-> SosSendDelay]
  IN  /\ d_now = 0
      /\ d_mounted = TRUE
      /\ d_isSOSInProgress = TRUE
      /\ d_lastSOSTime = 0
      /\ d_protSOSId = sosId
      /\ d_sentSOSIds = Append(earlier, sosId)
      /\ d_localSOSInProgress = TRUE
      /\ d_currentSOSId = sosId
      /\ d_sosTimeoutTimer = timeout
      /\ d_sosStream = <<>>
      /\ d_timers = {timeout, sent}
      /\ d_socket = "connected"
      /\ d_isConnected = TRUE
      /\ d_reconnectAttempts = 0
      /\ d_reconnectTimer = NoTimer
      /\ d_statusMessage = "Connected to emergency services"
      /\ d_sosSent = <<sosId>>
      /\ d_accepted = <<[id |-> sosId, at |-> 0]>>
      /\ d_trigger = [n |-> 1, result |-> "accepted"]

\* the events of a device that is already connected
D_NextInFlight ==
  \/ D_OnConnect /\ D_Only
  \/ D_OnDisconnect /\ D_Only
  \/ D_OnConnectError /\ D_Only
  \/ \E rnd \in 0..MaxRandom - 1 : d_trigger.n < MaxTriggers + 1 /\ D_SendSOS(rnd) /\ D_Only
  \/ D_HandleSOSEvent /\ D_Only
  \/ \E t \in d_timers : D_TimerFires(t) /\ D_Only
  \/ \E step \in D_TickSteps : d_now + step <= MaxTime /\ D_Tick(step) /\ D_Only
  \/ D_Dispose /\ D_Only

\* ------------------------------------------------------------------------
\* Claims about the device's alert submission
\* ------------------------------------------------------------------------
D_TimesSent(sosId) == Cardinality({i \in 1..Len(d_sosSent) : d_sosSent[i] = sosId})

\* C3 as claimed: once the stream has delivered the id of a trigger that
\* passed every guard, one 'sos' carrying that id has been emitted.
C3_OneSosPerTrigger ==
  \A i \in 1..Len(d_accepted) :
    ~InSeq(d_sosStream, d_accepted[i].id) => D_TimesSent(d_accepted[i].id) = 1

\* the pending work that ends a submission: the stream event of its id, the
\* timeout timer, the delayed future of the send, the settle timer
D_SubmissionPending ==
  \/ d_sosStream # <<>>
  \/ \E t \in d_timers : t.kind \in {"sosTimeout", "sosSent", "sosSettle"}

\* C4 as claimed: the submitter does not stay in flight for ever, so in no
\* state is an SOS in progress with nothing pending that will reset it.
C4_NeverStuckInFlight ==
  (d_isSOSInProgress \/ d_localSOSInProgress \/ d_currentSOSId # NoId)
    => D_SubmissionPending

\* C5: at most one alert is in flight: the stream holds at most the id in
\* progress, and while an SOS is in progress no trigger is accepted, no id is
\* recorded and nothing but the id in progress is emitted.
C5_SingleFlight ==
  /\ [](/\ Len(d_sosStream) <= 1
        /\ \A i \in 1..Len(d_sosStream) :
             d_isSOSInProgress /\ d_sosStream[i] = d_protSOSId)
  /\ [][ d_isSOSInProgress =>
          /\ d_accepted' = d_accepted
          /\ d_isSOSInProgress' => (d_protSOSId' = d_protSOSId /\ d_sentSOSIds' = d_sentSOSIds)
          /\ (d_sosSent' # d_sosSent => d_sosSent' = Append(d_sosSent, d_protSOSId)) ]_dvars

\* a trigger is refused while an SOS is in progress, the debounce time over
C5_Witness ==
  /\ d_isSOSInProgress
  /\ d_trigger.result = "blockedByProtection"
  /\ d_now - d_lastSOSTime >= SosDebounce
  /\ Len(d_accepted) = 1

\* a step of sendSOS
D_TriggerStep == d_trigger'.n = d_trigger.n + 1

\* C6: a trigger while an SOS is in progress, or less than SosDebounce after
\* the start of the last accepted trigger, or while the channel is not
\* connected, changes nothing of the submitter; two accepted triggers are at
\* least SosDebounce apart.
C6_TriggerRejected ==
  /\ [][ ( /\ D_TriggerStep
           /\ \/ d_isSOSInProgress
              \/ d_localSOSInProgress
              \/ (d_lastSOSTime # NoTime /\ d_now - d_lastSOSTime < SosDebounce)
              \/ ~d_isConnected )
         => /\ UNCHANGED D_SubmitterVars
            /\ UNCHANGED d_timers
            /\ d_trigger'.result # "accepted" ]_dvars
  /\ [](\A i, j \in 1..Len(d_accepted) :
          i < j => d_accepted[j].at - d_accepted[i].at >= SosDebounce)

\* a trigger is refused because the channel is down, no SOS being in progress
C6_Witness ==
  /\ d_trigger.result = "notConnected"
  /\ ~d_isSOSInProgress
  /\ ~d_isConnected
  /\ d_sentSOSIds = <<>>

\* a step in which the callback of the timeout timer or of the settle timer
\* runs (dispose and the end of the 800 ms delay cancel the timeout timer
\* without running it)
D_ResetFired ==
  \E t \in d_timers \ d_timers' :
    /\ t.due <= d_now
    /\ \/ t.kind = "sosSettle"
       \/ /\ t.kind = "sosTimeout"
          /\ d_mounted' = d_mounted
          /\ \A u \in d_timers \ d_timers' : u.kind # "sosSent"

D_ReconnectCapped ==
  /\ ReconnectStep > 0
  /\ [](d_reconnectAttempts <= MaxReconnectAttempts)
  /\ [](d_reconnectAttempts >= MaxReconnectAttempts
          => \A t \in d_timers : t.kind # "reconnect")
  /\ [][ (d_reconnectTimer' # d_reconnectTimer /\ d_reconnectTimer' # NoTimer)
         => /\ d_reconnectAttempts < MaxReconnectAttempts
            /\ d_reconnectTimer'.due - d_now =
                 ReconnectBase + d_reconnectAttempts * ReconnectStep
            /\ {t \in d_timers' : t.kind = "reconnect"} = {d_reconnectTimer'} ]_dvars
  /\ [][ ( /\ d_mounted
           /\ d_reconnectAttempts >= MaxReconnectAttempts
           /\ d_socket # "disconnected" /\ d_socket' = "disconnected" )
         => d_statusMessage' = "Unable to connect to emergency services" ]_dvars

AlertCooldown == 60000
WindowMax == 3
NoPos == -1

G_EmptyMap == [k \in {} |-> FALSE]

\* map[k] = v
G_Put(map, k, v) == (k :> v) @@ map

\* map.remove(k)
G_Remove(map, k) == [x \in DOMAIN map \ {k} |-> map[x]]

\* GeofenceModel.fromJson, for the fields the monitor reads
G_FromJson(json) ==
  [id           |-> IF Has(json, "id") THEN json.id ELSE "",
   name         |-> IF Has(json, "name") THEN json.name ELSE "",
   active       |-> IF Has(json, "active") THEN json.active ELSE TRUE,
   alertOnEntry |-> IF Has(json, "alertOnEntry") THEN json.alertOnEntry ELSE TRUE,
   alertOnExit  |-> IF Has(json, "alertOnExit") THEN json.alertOnExit ELSE FALSE,
   shapeType    |-> IF Has(json, "shapeType") THEN json.shapeType ELSE "polygon",
   points       |-> IF Has(json, "points") THEN json.points ELSE <<>>,
   center       |-> IF Has(json, "center") THEN json.center ELSE NoPos,
   radius       |-> IF Has(json, "radius") THEN json.radius ELSE NoPos]

\* Geolocator.distanceBetween
G_DistanceBetween(a, b) == IF a >= b THEN a - b ELSE b - a

\* PolygonUtil.containsLocation
G_ContainsLocation(pos, points) ==
  \E i, j \in 1..Len(points) : points[i] <= pos /\ pos <= points[j]

\* _checkSingleGeofence
G_CheckSingleGeofence(pos, g) ==
  IF pos = NoPos THEN FALSE
  ELSE IF g.shapeType = "circle" /\ g.center # NoPos /\ g.radius # NoPos
       THEN G_DistanceBetween(pos, g.center) <= g.radius
  ELSE IF g.shapeType = "polygon" /\ g.points # <<>>
       THEN G_ContainsLocation(pos, g.points)
  ELSE FALSE

\* the sample window after one more result
G_Window(old, raw) ==
  LET added == Append(old, raw)
  IN  IF Len(added) > WindowMax THEN Tail(added) ELSE added

G_Stable_LastTwo(window, raw) ==
  /\ Len(window) >= 2
  /\ window[Len(window) - 1] = raw

\* the window holds two results or more, and all of them are the last result
G_Stable(window, raw) ==
  /\ Len(window) >= 2
  /\ \A i \in 1..Len(window) : window[i] = raw

G_Transition_AnyExit(stable, raw, wasInside, g) ==
  IF stable /\ raw /\ ~wasInside /\ g.alertOnEntry THEN "entered"
  ELSE IF stable /\ ~raw /\ wasInside THEN "exited"
  ELSE "none"

\* the violation a check detects
G_Transition(stable, raw, wasInside, g) ==
  IF stable /\ raw /\ ~wasInside /\ g.alertOnEntry THEN "entered"
  ELSE IF stable /\ ~raw /\ wasInside /\ g.alertOnExit THEN "exited"
  ELSE "none"

G_NextStatus_Keep(stable, raw, wasInside) == wasInside

\* _previousGeofenceStatus[geofence.id] after a check
G_NextStatus(stable, raw, wasInside) == IF stable THEN raw ELSE wasInside

G_CooldownActive_Half(last, now) ==
  last # NoTime /\ 2 * (now - last) < AlertCooldown

\* the guard of _handleGeofenceViolation
G_CooldownActive(last, now) ==
  last # NoTime /\ now - last < AlertCooldown

\* the payload of 'geofenceViolation'
G_Violation(g, action, pos, now) ==
  [action |-> action, geofenceId |-> g.id, geofenceName |-> g.name,
   lat |-> pos, timestamp |-> now]

\* _handleGeofenceViolation, on the monitor state m
G_HandleGeofenceViolation(m, g, action, pos, now, connected) ==
  IF G_CooldownActive(m.lastAlert, now) THEN m
  ELSE [m EXCEPT !.lastAlert = now,
                 !.out = IF connected
                         THEN Append(@, G_Violation(g, action, pos, now))
                         ELSE @]

\* the run of inside results of a geofence: its length, the entry violations
\* emitted during it, whether it began with a stable status of false and met
\* no cooldown and no closed channel before its first entry violation,
\* whether the window was empty when it began, and whether the cooldown
\* suppressed the entry violation of the run
G_NoRun ==
  [len |-> 0, entries |-> 0, clean |-> TRUE, fromEmpty |-> FALSE,
   suppressed |-> FALSE]

G_RunAfter(r, raw, old, wasInside, blocked, entered, suppressed) ==
  IF ~raw THEN G_NoRun
  ELSE [len       |-> IF r.len < MaxRunLen THEN r.len + 1 ELSE r.len,
        entries   |-> r.entries + (IF entered THEN 1 ELSE 0),
        clean     |-> /\ (IF r.len = 0 THEN ~wasInside ELSE r.clean)
                      /\ (r.entries > 0 \/ ~blocked),
        fromEmpty |-> IF r.len = 0 THEN old = <<>> ELSE r.fromEmpty,
        suppressed |-> r.suppressed \/ suppressed]

\* one iteration of the loop of _checkAllGeofences
G_CheckOne(m, g, pos, now, connected) ==
  LET raw       == G_CheckSingleGeofence(pos, g)
      old       == IF g.id \in DOMAIN m.checks THEN m.checks[g.id] ELSE <<>>
      window    == G_Window(old, raw)
      stable    == G_Stable(window, raw)
      wasInside == IF g.id \in DOMAIN m.previous THEN m.previous[g.id] ELSE FALSE
      action    == G_Transition(stable, raw, wasInside, g)
      m1        == [m EXCEPT !.checks = G_Put(@, g.id, window)]
      m2        == IF action # "none"
                   THEN G_HandleGeofenceViolation(m1, g, action, pos, now, connected)
                   ELSE m1
      status    == G_NextStatus(stable, raw, wasInside)
      m3        == IF stable
                   THEN [m2 EXCEPT !.previous = G_Put(@, g.id, status)] ELSE m2
      emitted   == SubSeq(m2.out, Len(m.out) + 1, Len(m2.out))
      r         == IF g.id \in DOMAIN m.run THEN m.run[g.id] ELSE G_NoRun
      blocked   == G_CooldownActive(m.lastAlert, now) \/ ~connected
  IN  [m3 EXCEPT
         !.inside = G_Put(@, g.id, raw),
         !.trace  = Append(@, [g |-> g, raw |-> raw, window |-> window,
                               wasInside |-> wasInside, emitted |-> emitted,
                               status |-> IF g.id \in DOMAIN m3.previous
                                          THEN m3.previous[g.id] ELSE FALSE]),
         !.run    = G_Put(@, g.id,
                          G_RunAfter(r, raw, old, wasInside, blocked,
                                     emitted # <<>> /\ action = "entered",
                                     /\ action = "entered" /\ connected
                                     /\ G_CooldownActive(m1.lastAlert, now)))]

\* the loop of _checkAllGeofences over the active geofences
RECURSIVE G_CheckEach(_, _, _, _, _)
G_CheckEach(m, geofences, pos, now, connected) ==
  IF geofences = <<>> THEN m
  ELSE LET g == Head(geofences)
       IN  G_CheckEach(IF g.active THEN G_CheckOne(m, g, pos, now, connected) ELSE m,
                       Tail(geofences), pos, now, connected)

\* _checkAllGeofences
G_CheckAllGeofences(m, geofences, pos, hasReceived, now, connected) ==
  IF pos = NoPos \/ ~hasReceived \/ geofences = <<>> THEN m
  ELSE G_CheckEach(m, geofences, pos, now, connected)

\* the monitor state a handler starts from
G_Monitor ==
  [checks |-> g_recentInsideChecks, previous |-> g_previousGeofenceStatus,
   inside |-> g_geofenceInsideStatus, lastAlert |-> g_lastAlertTime,
   out |-> <<>>, trace |-> <<>>, run |-> g_run]

\* the monitor state a handler leaves
G_Commit(m) ==
  /\ g_recentInsideChecks' = m.checks
  /\ g_previousGeofenceStatus' = m.previous
  /\ g_geofenceInsideStatus' = m.inside
  /\ g_lastAlertTime' = m.lastAlert
  /\ g_out' = m.out
  /\ g_trace' = m.trace
  /\ g_emitted' = g_emitted \o m.out
  /\ g_run' = m.run

G_Init ==
  /\ g_now = 0
  /\ g_isConnected = FALSE
  /\ g_currentPos = NoPos
  /\ g_geofences = <<>>
  /\ g_hasReceivedGeofences = FALSE
  /\ g_geofenceInsideStatus = G_EmptyMap
  /\ g_previousGeofenceStatus = G_EmptyMap
  /\ g_recentInsideChecks = G_EmptyMap
  /\ g_lastAlertTime = NoTime
  /\ g_last = [ev |-> "none", data |-> Null]
  /\ g_out = <<>>
  /\ g_trace = <<>>
  /\ g_emitted = <<>>
  /\ g_run = G_EmptyMap

\* the listener of the position stream
G_OnPosition(pos) ==
  /\ g_currentPos' = pos
  /\ G_Commit(G_CheckAllGeofences(G_Monitor, g_geofences, pos,
                                  g_hasReceivedGeofences, g_now, g_isConnected))
  /\ g_last' = [ev |-> "position", data |-> pos]
  /\ UNCHANGED <<g_now, g_isConnected, g_geofences, g_hasReceivedGeofences>>

\* _geofences.indexWhere((g) => g.id == id), 0 when there is none
G_IndexWhere(geofences, id) ==
  IF \E i \in 1..Len(geofences) : geofences[i].id = id
  THEN CHOOSE i \in 1..Len(geofences) :
         /\ geofences[i].id = id
         /\ \A j \in 1..(i - 1) : geofences[j].id # id
  ELSE 0

\* the membership state of a geofence that was received
G_ResetMembership(m, id) ==
  [m EXCEPT !.inside   = G_Put(@, id, FALSE),
            !.previous = G_Put(@, id, FALSE),
            !.checks   = G_Put(@, id, <<>>),
            !.run      = G_Put(@, id, G_NoRun)]

\* _handleGeofenceUpdate
G_HandleGeofenceUpdate(data) ==
  LET geofence  == G_FromJson(data)
      index     == G_IndexWhere(g_geofences, geofence.id)
      geofences == IF index # 0
                   THEN [g_geofences EXCEPT ![index] = geofence]
                   ELSE Append(g_geofences, geofence)
  IN  /\ g_geofences' = geofences
      /\ g_hasReceivedGeofences' = TRUE
      /\ G_Commit(G_CheckAllGeofences(G_ResetMembership(G_Monitor, geofence.id),
                                      geofences, g_currentPos, TRUE, g_now,
                                      g_isConnected))
      /\ g_last' = [ev |-> "updateGeofence", data |-> data]
      /\ UNCHANGED <<g_now, g_isConnected, g_currentPos>>

\* the loop of _handleAllGeofences
RECURSIVE G_ResetEach(_, _)
G_ResetEach(m, geofences) ==
  IF geofences = <<>> THEN m
  ELSE G_ResetEach(G_ResetMembership(m, Head(geofences).id), Tail(geofences))

\* _handleAllGeofences
G_HandleAllGeofences(list) ==
  LET geofences == [i \in 1..Len(list) |-> G_FromJson(list[i])]
      cleared   == [G_Monitor EXCEPT !.checks = G_EmptyMap, !.previous = G_EmptyMap,
                                     !.inside = G_EmptyMap, !.run = G_EmptyMap]
      m         == G_ResetEach(cleared, geofences)
  IN  /\ g_geofences' = geofences
      /\ g_hasReceivedGeofences' = (geofences # <<>>)
      /\ G_Commit(IF geofences # <<>>
                  THEN G_CheckAllGeofences(m, geofences, g_currentPos, TRUE, g_now,
                                           g_isConnected)
                  ELSE m)
      /\ g_last' = [ev |-> "allGeofences", data |-> list]
      /\ UNCHANGED <<g_now, g_isConnected, g_currentPos>>

\* _geofences.removeWhere((g) => g.id == id)
G_RemoveWhere(geofences, id) ==
  SelectSeq(geofences, LAMBDA g : g.id # id)

\* _handleGeofenceDelete
G_HandleGeofenceDelete(data) ==
  /\ IF Has(data, "id")
     THEN /\ g_geofences' = G_RemoveWhere(g_geofences, data.id)
          /\ G_Commit([G_Monitor EXCEPT !.inside   = G_Remove(@, data.id),
                                        !.previous = G_Remove(@, data.id),
                                        !.checks   = G_Remove(@, data.id),
                                        !.run      = G_Remove(@, data.id)])
     ELSE /\ UNCHANGED g_geofences
          /\ G_Commit(G_Monitor)
  /\ g_last' = [ev |-> "deleteGeofence", data |-> data]
  /\ UNCHANGED <<g_now, g_isConnected, g_currentPos, g_hasReceivedGeofences>>

\* socket.onConnect, for the monitor
G_OnConnect ==
  /\ ~g_isConnected
  /\ g_isConnected' = TRUE
  /\ G_Commit(G_Monitor)
  /\ g_last' = [ev |-> "connect", data |-> Null]
  /\ UNCHANGED <<g_now, g_currentPos, g_geofences, g_hasReceivedGeofences>>

\* socket.onDisconnect and socket.onConnectError, for the monitor
G_OnDisconnect ==
  /\ g_isConnected
  /\ g_isConnected' = FALSE
  /\ G_Commit(G_Monitor)
  /\ g_last' = [ev |-> "disconnect", data |-> Null]
  /\ UNCHANGED <<g_now, g_currentPos, g_geofences, g_hasReceivedGeofences>>

\* time passes
G_Tick ==
  /\ g_now < MaxMonTime
  /\ g_now' = g_now + MonTick
  /\ G_Commit(G_Monitor)
  /\ g_last' = [ev |-> "tick", data |-> Null]
  /\ UNCHANGED <<g_isConnected, g_currentPos, g_geofences, g_hasReceivedGeofences>>

\* the geofences the relay sends
G_ZoneJson ==
  [id |-> "g1", name |-> "Zone", shapeType |-> "circle", center |-> 0, radius |-> 2,
   alertOnExit |-> TRUE]

G_QuietJson ==
  [id |-> "g1", name |-> "Zone", shapeType |-> "circle", center |-> 0, radius |-> 2,
   alertOnEntry |-> FALSE, alertOnExit |-> FALSE]

G_YardJson == [id |-> "g2", name |-> "Yard", points |-> <<4, 6>>]

G_OffJson == [id |-> "g2", name |-> "Yard", points |-> <<4, 6>>, active |-> FALSE]

G_UpdatePayloads == {G_ZoneJson, G_QuietJson, G_YardJson, G_OffJson}

G_AllPayloads == {<<>>, <<G_ZoneJson, G_YardJson>>}

G_DeletePayloads == {[id |-> "g1"], [name |-> "Zone"]}

\* the positions the location service reports
G_Positions == {0, 5}

G_Next ==
  \/ \E pos \in G_Positions : G_OnPosition(pos) /\ G_Only
  \/ \E data \in G_UpdatePayloads :
       G_HandleGeofenceUpdate(data) /\ G_Only
  \/ \E list \in G_AllPayloads :
       G_HandleAllGeofences(list) /\ G_Only
  \/ \E data \in G_DeletePayloads : G_HandleGeofenceDelete(data) /\ G_Only
  \/ G_OnConnect /\ G_Only
  \/ G_OnDisconnect /\ G_Only
  \/ G_Tick /\ G_Only

\* ------------------------------------------------------------------------
\* Claims about the geofence monitor
\* ------------------------------------------------------------------------
\* the geofence of the device's list with this id
G_Geofence(geofences, id) == geofences[G_IndexWhere(geofences, id)]

G_Unanimous(window) ==
  \A i, j \in 1..Len(window) : window[i] = window[j]

G_EmittedFor(out, id) ==
  {i \in 1..Len(out) : out[i].geofenceId = id}

\* C24: a check that leaves a geofence's window with fewer than two results,
\* or with results that do not all agree, emits no violation for the
\* geofence and leaves its stable status (_previousGeofenceStatus) as it was;
\* so the results true, false, true emit nothing.
C24_UnstableWindowSilent ==
  /\ [](\A k \in 1..Len(g_trace) :
          LET e == g_trace[k]
          IN  (Len(e.window) < 2 \/ ~G_Unanimous(e.window))
                => e.emitted = <<>> /\ e.status = e.wasInside)
  /\ [][ g_last'.ev = "position" =>
           \A id \in DOMAIN g_recentInsideChecks' :
             LET window == g_recentInsideChecks'[id]
             IN  (Len(window) < 2 \/ ~G_Unanimous(window))
                   => /\ G_EmittedFor(g_out', id) = {}
                      /\ id \in DOMAIN g_previousGeofenceStatus
                      /\ g_previousGeofenceStatus'[id] = g_previousGeofenceStatus[id]
       ]_gvars

\* the results true, false, true of a geofence that alerts on entry, with the
\* channel up and no cooldown: nothing was emitted
C24_Witness ==
  /\ g_last.ev = "position"
  /\ g_isConnected
  /\ g_lastAlertTime = NoTime
  /\ g_emitted = <<>>
  /\ \E id \in DOMAIN g_recentInsideChecks :
       /\ g_recentInsideChecks[id] = <<TRUE, FALSE, TRUE>>
       /\ G_Geofence(g_geofences, id).alertOnEntry
       /\ G_Geofence(g_geofences, id).active
       /\ ~g_previousGeofenceStatus[id]

\* C25 (as stated): for an active geofence that alerts on entry, a run of two
\* or more consecutive inside results that began with a stable status of
\* false, with no cooldown active and the channel up, has emitted exactly one
\* entry violation for the geofence.
C25_EntryOncePerRun ==
  \A id \in DOMAIN g_run :
    LET r == g_run[id]
        g == G_Geofence(g_geofences, id)
    IN  (g.active /\ g.alertOnEntry /\ r.clean /\ r.len >= 2) => r.entries = 1

\* C25 (amended): the same for a run of three or more inside results, and for
\* a run of two that began with an empty window; no such run emits more than
\* one entry violation.
C25_EntryOnceWindowFilled ==
  \A id \in DOMAIN g_run :
    LET r == g_run[id]
        g == G_Geofence(g_geofences, id)
    IN  (g.active /\ g.alertOnEntry /\ r.clean)
          => /\ r.entries <= 1
             /\ (r.len >= 3 \/ (r.len >= 2 /\ r.fromEmpty)) => r.entries = 1

\* a run of three inside results that followed outside results, and emitted
\* its entry violation
C25_Witness ==
  \E id \in DOMAIN g_run :
    /\ g_run[id].len >= 3
    /\ g_run[id].clean
    /\ ~g_run[id].fromEmpty
    /\ g_run[id].entries = 1
    /\ G_Geofence(g_geofences, id).alertOnEntry
    /\ \E i \in 1..Len(g_out) : g_out[i].geofenceId = id /\ g_out[i].action = "entered"

\* C26: an exit violation is emitted only by a check that leaves the window
\* unanimous outside, for a geofence whose stable status was inside and that
\* has alertOnExit; an entry violation only for a geofence that has
\* alertOnEntry.
C26_ExitOnlyWhenArmed ==
  [][ \A i \in 1..Len(g_out') :
        LET v  == g_out'[i]
            id == v.geofenceId
        IN  /\ G_IndexWhere(g_geofences', id) # 0
            /\ v.action = "exited" =>
                 /\ Len(g_recentInsideChecks'[id]) >= 2
                 /\ \A j \in 1..Len(g_recentInsideChecks'[id]) :
                      ~g_recentInsideChecks'[id][j]
                 /\ id \in DOMAIN g_previousGeofenceStatus
                 /\ g_previousGeofenceStatus[id]
                 /\ G_Geofence(g_geofences', id).alertOnExit
            /\ v.action = "entered" => G_Geofence(g_geofences', id).alertOnEntry
    ]_gvars

\* an exit violation was emitted
C26_Witness ==
  \E i \in 1..Len(g_out) :
    /\ g_out[i].action = "exited"
    /\ ~g_previousGeofenceStatus[g_out[i].geofenceId]

\* C27: any two violations the device emitted are 60 seconds or more apart,
\* whichever geofences they are about.
C27_CooldownDeviceWide ==
  \A i, j \in 1..Len(g_emitted) :
    i < j => g_emitted[j].timestamp - g_emitted[i].timestamp >= AlertCooldown

\* two violations about two geofences were emitted
C27_Witness ==
  \E i, j \in 1..Len(g_emitted) :
    /\ i < j
    /\ g_emitted[i].geofenceId # g_emitted[j].geofenceId

\* C28: an 'updateGeofence' for an id the device already holds keeps the
\* stable status and the sample window of that geofence: after the handler the
\* window is the old one, with at most the result of the handler's own check
\* added, and the status is the old one unless that window is stable.
C28_UpdateKeepsMembership ==
  [][ g_last'.ev = "updateGeofence" =>
        LET id == G_FromJson(g_last'.data).id
        IN  id \in DOMAIN g_recentInsideChecks =>
              LET old    == g_recentInsideChecks[id]
                  window == g_recentInsideChecks'[id]
              IN  /\ \/ window = old
                     \/ \E raw \in BOOLEAN : window = G_Window(old, raw)
                  /\ \/ g_previousGeofenceStatus'[id] = g_previousGeofenceStatus[id]
                     \/ G_Stable(window, g_previousGeofenceStatus'[id])
    ]_gvars

\* C36 as claimed: a sync event ('updateGeofence', 'allGeofences') adds no
\* result to any window (it leaves a window as it was or empties it), so it
\* emits no entry violation: an entry violation takes location samples
C36_SyncAddsNoSamples ==
  [][ g_last'.ev \in {"updateGeofence", "allGeofences"} =>
        /\ \A id \in DOMAIN g_recentInsideChecks' :
              \/ g_recentInsideChecks'[id] = <<>>
              \/ /\ id \in DOMAIN g_recentInsideChecks
                 /\ g_recentInsideChecks'[id] = g_recentInsideChecks[id]
        /\ \A i \in 1..Len(g_out') : g_out'[i].action # "entered"
    ]_gvars

\* the device is stably inside the geofence with a window full of inside
\* results (a further sample at its position changes nothing), the cooldown
\* suppressed the entry violation of this stay, and now the cooldown is over
\* and the channel is connected
G_EntryOwed(id) ==
  /\ id \in DOMAIN g_run
  /\ g_run[id].suppressed
  /\ id \in DOMAIN g_recentInsideChecks
  /\ g_recentInsideChecks[id] = [i \in 1..WindowMax |-> TRUE]
  /\ id \in DOMAIN g_previousGeofenceStatus
  /\ g_previousGeofenceStatus[id]
  /\ g_isConnected
  /\ ~G_CooldownActive(g_lastAlertTime, g_now)

\* the last handler emitted an entry violation for the geofence
G_EntryEmitted(id) ==
  \E i \in 1..Len(g_out) : g_out[i].geofenceId = id /\ g_out[i].action = "entered"

\* the device is no longer inside the geofence, or the geofence was received
\* anew or removed
G_NotInside(id) ==
  \/ id \notin DOMAIN g_geofenceInsideStatus
  \/ ~g_geofenceInsideStatus[id]
  \/ id \notin DOMAIN g_previousGeofenceStatus
  \/ ~g_previousGeofenceStatus[id]

\* C35 as claimed: an entry that the cooldown suppressed is not lost: once
\* the cooldown is over, the device still being inside, an entry violation
\* for the geofence is emitted (unless the device leaves the geofence or the
\* channel closes first)
C35_CrossingNotLost ==
  /\ G_EntryOwed("g1")
       ~> (G_EntryEmitted("g1") \/ G_NotInside("g1") \/ ~g_isConnected)
  /\ G_EntryOwed("g2")
       ~> (G_EntryEmitted("g2") \/ G_NotInside("g2") \/ ~g_isConnected)

\* ========================================================================
\* The legacy relay (src/server.js)
\* ========================================================================
\* JavaScript's null, as a value of currentGeofence
S_Null == [null |-> TRUE]

S_Init ==
  /\ s_proc = "up"
  /\ s_sockets = <<>>
  /\ s_nextSocket = 1
  /\ s_currentGeofence = S_Null
  /\ s_setCount = 0
  /\ s_sets = <<>>
  /\ s_last = [ev |-> "start"]
  /\ s_out = <<>>

\* io.emit
S_IoEmit(ev, data) == [i \in 1..Len(s_sockets) |-> Emit(s_sockets[i], ev, data)]

\* io.on('connection'); a payload object is truthy
S_Connect ==
  /\ s_proc = "up"
  /\ s_sockets' = Append(s_sockets, s_nextSocket)
  /\ s_nextSocket' = s_nextSocket + 1
  /\ s_out' = IF s_currentGeofence # S_Null
              THEN <<Emit(s_nextSocket, "updateGeofence", s_currentGeofence)>>
              ELSE <<>>
  /\ s_last' = [ev |-> "connection", from |-> s_nextSocket]
  /\ UNCHANGED <<s_proc, s_currentGeofence, s_setCount, s_sets>>

\* socket.on('disconnect')
S_Disconnect(s) ==
  /\ InSeq(s_sockets, s)
  /\ s_sockets' = SelectSeq(s_sockets, LAMBDA c : c # s)
  /\ s_out' = <<>>
  /\ s_last' = [ev |-> "disconnect", from |-> s]
  /\ UNCHANGED <<s_proc, s_nextSocket, s_currentGeofence, s_setCount, s_sets>>

\* socket.on('sos')
S_Sos(s, data) ==
  /\ InSeq(s_sockets, s)
  /\ s_out' = S_IoEmit("sosAlert", data)
  /\ s_last' = [ev |-> "sos", from |-> s]
  /\ UNCHANGED <<s_proc, s_sockets, s_nextSocket, s_currentGeofence, s_setCount,
                 s_sets>>

\* socket.on('setGeofence'): after the assignment the handler logs
\* currentGeofence.points.length; for a payload without points that read
\* throws a TypeError before io.emit is reached, and as server.js installs
\* no 'uncaughtException' handler Node ends the process, which closes
\* every socket
S_SetGeofence(s, data) ==
  /\ InSeq(s_sockets, s)
  /\ s_currentGeofence' = data
  /\ s_setCount' = s_setCount + 1
  /\ s_sets' = Append(s_sets, data)
  /\ s_last' = [ev |-> "setGeofence", from |-> s]
  /\ IF Has(data, "points")
     THEN /\ s_out' = S_IoEmit("updateGeofence", data)
          /\ UNCHANGED <<s_proc, s_sockets>>
     ELSE /\ s_out' = <<>>
          /\ s_proc' = "exited"
          /\ s_sockets' = <<>>
  /\ UNCHANGED s_nextSocket

\* the payloads of 'setGeofence': two polygons and a circle, which has a
\* center and a radius and no points
S_GeofencePayloads ==
  { [name |-> "Area", points |-> <<"p", "q", "r">>],
    [name |-> "Field", points |-> <<"p", "q", "r", "s">>],
    [name |-> "Zone", center |-> "c", radius |-> 100] }

S_SosPayloads == { [user |-> "u", lat |-> "x", lon |-> "y"] }

S_Next ==
  \/ s_nextSocket <= MaxLegacySockets /\ S_Connect /\ S_Only
  \/ \E s \in 1..MaxLegacySockets : S_Disconnect(s) /\ S_Only
  \/ \E s \in 1..MaxLegacySockets, data \in S_SosPayloads : S_Sos(s, data) /\ S_Only
  \/ \E s \in 1..MaxLegacySockets, data \in S_GeofencePayloads :
        s_setCount < MaxLegacySets /\ S_SetGeofence(s, data) /\ S_Only

\* C40 as claimed: a client that connects is sent one 'updateGeofence' with
\* the geofence of the last 'setGeofence' event, and nothing if there was no
\* such event; every 'setGeofence' is sent as 'updateGeofence' to every
\* connected client, the sender included
C40_LegacyGeofenceSync ==
  [][ /\ s_last'.ev = "connection" =>
           s_out' = IF s_sets = <<>> THEN <<>>
                    ELSE <<Emit(s_last'.from, "updateGeofence", s_sets[Len(s_sets)])>>
      /\ s_last'.ev = "setGeofence" =>
           /\ Len(s_out') = Len(s_sockets)
           /\ \A i \in 1..Len(s_out') :
                 s_out'[i] = Emit(s_sockets[i], "updateGeofence",
                                  s_sets'[Len(s_sets')])
    ]_svars

\* ========================================================================
\* Specifications
\* ========================================================================
InitLight == L_InitAfter(0) /\ E_InitAfter(0) /\ D_Init /\ G_Init /\ S_Init

InitLightWindow == L_InitAfter(DedupMax) /\ E_InitAfter(0) /\ D_Init /\ G_Init /\ S_Init

InitEnhLedger ==
  /\ L_InitAfter(0) /\ D_Init /\ G_Init /\ S_Init
  /\ \E n \in {0, LedgerMax - 1} : E_InitAfter(n)

InitDev == L_InitAfter(0) /\ E_InitAfter(0) /\ D_Init /\ G_Init /\ S_Init

SpecLight == InitLight /\ [][L_Next]_vars

SpecLightWindow == InitLightWindow /\ [][L_NextWindow]_vars

SpecEnhLedger == InitEnhLedger /\ [][E_NextLedger]_vars

SpecDev == InitDev /\ [][D_Next]_vars

InitEnhGeo ==
  /\ L_InitAfter(0) /\ D_Init /\ G_Init /\ S_Init
  /\ \E k \in {0, 2} : E_InitAfterGeofences(k)

SpecEnhGeo == InitEnhGeo /\ [][E_NextGeo]_vars

InitDevInFlight == L_InitAfter(0) /\ E_InitAfter(0) /\ G_Init /\ S_Init /\ D_InitInFlight

SpecDevInFlight == InitDevInFlight /\ [][D_NextInFlight]_vars

SpecDevReconnect == InitDev /\ [][D_NextReconnect]_vars

InitDevIds ==
  /\ L_InitAfter(0) /\ E_InitAfter(0) /\ G_Init /\ S_Init
  /\ \E n \in {0, SentIdsMax} : D_InitInFlightAfter(n)

SpecDevIds == InitDevIds /\ [][D_NextInFlight]_vars

InitMonitor == L_InitAfter(0) /\ E_InitAfter(0) /\ D_Init /\ G_Init /\ S_Init

SpecMonitor == InitMonitor /\ [][G_Next]_vars

\* time passes
SpecMonitorFair == SpecMonitor /\ WF_vars(G_Tick /\ G_Only)

InitLegacy == L_InitAfter(0) /\ E_InitAfter(0) /\ D_Init /\ G_Init /\ S_Init

SpecLegacy == InitLegacy /\ [][S_Next]_vars

SpecEnhSync == InitEnhGeo /\ [][E_NextSync]_vars

InitEnhServe ==
  /\ L_InitAfter(0) /\ D_Init /\ G_Init /\ S_Init
  /\ \E k \in {0, 2}, n \in {0, RecentAlertsMax + 1} : E_InitAfterBoth(k, n)

SpecEnhServe == InitEnhServe /\ [][E_NextServe]_vars

\* Node runs the callback of every timer that is due
SpecEnhGeoFair == SpecEnhGeo /\ WF_vars(E_TimerFires /\ E_Only)
====
